---------------------------- MODULE Spec2Model ----------------------------
(***************************************************************************)
(* A model of the media ripper: the disc identifier (DetectCD and the      *)
(* metadata lookup), the drive locator (DetectDrives), the rip session     *)
(* (RipCD, simulateRipping, monitorAbcdeProgress, the progress channel)    *)
(* and the part of the terminal UI that starts and cancels rips.           *)
(*                                                                         *)
(* Go strings are modelled as sequences of one-character strings, so that  *)
(* strings.Fields, strings.TrimSpace, strconv.Atoi, fmt.Sprintf and the    *)
(* regular expressions are computed character by character.                *)
(***************************************************************************)
EXTENDS Integers, Sequences, FiniteSets, TLC

VARIABLES
    config,       \* the *config.Config shared by the ripper and the UI
    cdInfo,       \* the descriptor last returned by DetectCD (or NilCD)
    identCall,    \* the last identifier call: its inputs and returned error
    host,         \* the host's device files and block-device registry
    drivesOut,    \* what DetectDrives last returned
    ripPc,        \* where the goroutine running RipCD stands
    ripTrack,     \* the loop variable `track` of simulateRipping
    ripN,         \* cdInfo.TrackCount of the rip session
    ctxDone,      \* r.ctx is cancelled (Stop was called)
    progressCh,   \* r.progressCh: the buffered events, oldest first
    emitted,      \* the events the session has sent, in order (history)
    received,     \* the events received since the session started (history)
    ripRet,       \* what RipCD returned
    sessions,     \* the number of RipCD calls so far
    stopDuring,   \* Stop was called while this session was running (history)
    proc,         \* the ripping subprocess
    pipes,        \* its stdout and stderr pipes
    scan,         \* the scanner goroutines of monitorAbcdeProgress
    ui,           \* the UI model (main.go's model m)
    uiCmds,       \* the commands of the UI that are in flight
    uiRips,       \* the rip goroutines the UI has started
    sh            \* the run of the video-disc script: where main stands

identVars == <<cdInfo, identCall>>
drivesVars == <<host, drivesOut>>
ripVars == <<ripPc, ripTrack, ripN, ctxDone, progressCh, emitted, received, ripRet,
             sessions, stopDuring>>
procVars == <<proc, pipes, scan>>
uiVars == <<ui, uiCmds, uiRips>>
scriptVars == <<sh>>
vars == <<config, identVars, drivesVars, ripVars, procVars, uiVars, scriptVars>>

-----------------------------------------------------------------------------
(* Bounds of the model.                                                    *)

\* the longest list of offset tokens the identification tool prints
MaxOffsets == 3
\* the most lines in a lookup tool's output
MaxLines == 2
\* the most tracks of a disc that is ripped
MaxTracks == 5
\* the most calls of RipCD on one CDRipper
MaxSessions == 2
\* the most lines the ripping tool writes on its standard output
MaxToolLines == 2
\* the most rips started from the UI
MaxRips == 2
\* the most commands of one kind the UI has in flight
MaxInFlight == 2
\* the highest spinner frame the model counts to before it starts again
MaxSpinnerFrame == 2

-----------------------------------------------------------------------------
(* Strings.                                                                *)

IsSpace(c) == c \in {" ", "\t", "\n", "\r"}

RECURSIVE TrimLeft(_)
TrimLeft(s) ==
    IF s = <<>> THEN s
    ELSE IF IsSpace(Head(s)) THEN TrimLeft(Tail(s)) ELSE s

RECURSIVE TrimRight(_)
TrimRight(s) ==
    IF s = <<>> THEN s
    ELSE IF IsSpace(s[Len(s)]) THEN TrimRight(SubSeq(s, 1, Len(s) - 1)) ELSE s

\* strings.TrimSpace
TrimSpace(s) == TrimRight(TrimLeft(s))

RECURSIVE FieldsAcc(_, _, _)
FieldsAcc(s, cur, acc) ==
    IF s = <<>> THEN (IF cur = <<>> THEN acc ELSE Append(acc, cur))
    ELSE IF IsSpace(Head(s))
         THEN FieldsAcc(Tail(s), <<>>, IF cur = <<>> THEN acc ELSE Append(acc, cur))
         ELSE FieldsAcc(Tail(s), Append(cur, Head(s)), acc)

\* strings.Fields: the maximal runs of non-space characters
Fields(s) == FieldsAcc(s, <<>>, <<>>)

\* strings.Index, 1-based; 0 when sub does not occur in s
Index(s, sub) ==
    LET hits == {i \in 1..(Len(s) - Len(sub) + 1) : SubSeq(s, i, i + Len(sub) - 1) = sub}
    IN IF hits = {} THEN 0 ELSE CHOOSE i \in hits : \A j \in hits : i <= j

\* strings.Contains
Contains(s, sub) == Index(s, sub) # 0

\* strings.HasPrefix
HasPrefix(s, p) == Len(s) >= Len(p) /\ SubSeq(s, 1, Len(p)) = p

\* strings.SplitN(s, sep, 2)
SplitN2(s, sep) ==
    LET i == Index(s, sep)
    IN IF i = 0 THEN <<s>>
       ELSE <<SubSeq(s, 1, i - 1), SubSeq(s, i + Len(sep), Len(s))>>

RECURSIVE Split(_, _)
\* strings.Split(s, sep) for a non-empty sep
Split(s, sep) ==
    LET i == Index(s, sep)
    IN IF i = 0 THEN <<s>>
       ELSE <<SubSeq(s, 1, i - 1)>> \o Split(SubSeq(s, i + Len(sep), Len(s)), sep)

RECURSIVE Join(_, _)
\* strings.Join
Join(parts, sep) ==
    IF parts = <<>> THEN <<>>
    ELSE IF Len(parts) = 1 THEN parts[1]
    ELSE parts[1] \o sep \o Join(Tail(parts), sep)

DigitChars == <<"0", "1", "2", "3", "4", "5", "6", "7", "8", "9">>
IsDigit(c) == \E v \in 1..10 : DigitChars[v] = c
DigitVal(c) == (CHOOSE v \in 1..10 : DigitChars[v] = c) - 1

RECURSIVE DecVal(_)
DecVal(s) ==
    IF s = <<>> THEN 0
    ELSE DecVal(SubSeq(s, 1, Len(s) - 1)) * 10 + DigitVal(s[Len(s)])

\* strconv.Atoi: an optional sign and at least one decimal digit
Atoi(s) ==
    LET signed == s # <<>> /\ Head(s) \in {"+", "-"}
        body == IF signed THEN Tail(s) ELSE s
    IN IF body = <<>> \/ \E i \in 1..Len(body) : ~IsDigit(body[i])
       THEN [ok |-> FALSE, val |-> 0]
       ELSE [ok |-> TRUE,
             val |-> IF signed /\ Head(s) = "-" THEN 0 - DecVal(body) ELSE DecVal(body)]

RECURSIVE Itoa(_)
\* the decimal digits of n >= 0
Itoa(n) ==
    IF n < 10 THEN <<DigitChars[n + 1]>>
    ELSE Itoa(n \div 10) \o <<DigitChars[(n % 10) + 1]>>

\* a variant of Format02d that formats with %d: no padding
Format02dUnpadded(n) == Itoa(n)

\* fmt.Sprintf("%02d", n) for n >= 0: zero-padded to at least 2 digits
Format02d(n) ==
    LET d == Itoa(n) IN IF Len(d) < 2 THEN <<"0">> \o d ELSE d

-----------------------------------------------------------------------------
(* String literals of the source.                                          *)

S_PermissionDenied ==
    <<"p", "e", "r", "m", "i", "s", "s", "i", "o", "n", " ", "d", "e", "n", "i", "e", "d">>
S_NoSuchFile ==
    <<"n", "o", " ", "s", "u", "c", "h", " ", "f", "i", "l", "e">>
S_NoDisc ==
    <<"n", "o", " ", "d", "i", "s", "c">>
S_NoMediumFound ==
    <<"N", "o", " ", "m", "e", "d", "i", "u", "m", " ", "f", "o", "u", "n", "d">>
S_PermDeniedAccessing ==
    <<"p", "e", "r", "m", "i", "s", "s", "i", "o", "n", " ", "d", "e", "n", "i", "e", "d", " ",
      "a", "c", "c", "e", "s", "s", "i", "n", "g", " ">>
S_TryPermissions ==
    <<" ", "-", " ", "t", "r", "y", " ", "r", "u", "n", "n", "i", "n", "g", " ", "w", "i", "t",
      "h", " ", "a", "p", "p", "r", "o", "p", "r", "i", "a", "t", "e", " ", "p", "e", "r", "m",
      "i", "s", "s", "i", "o", "n", "s">>
S_DriveSp ==
    <<"d", "r", "i", "v", "e", " ">>
S_NotFoundCheck ==
    <<" ", "n", "o", "t", " ", "f", "o", "u", "n", "d", " ", "-", " ", "c", "h", "e", "c", "k",
      " ", "i", "f", " ", "d", "r", "i", "v", "e", " ", "i", "s", " ", "c", "o", "n", "n", "e",
      "c", "t", "e", "d">>
S_FailedToDetect ==
    <<"f", "a", "i", "l", "e", "d", " ", "t", "o", " ", "d", "e", "t", "e", "c", "t", " ", "C",
      "D", " ", "i", "n", " ">>
S_ColonSp ==
    <<":", " ">>
S_InvalidOutput ==
    <<"i", "n", "v", "a", "l", "i", "d", " ", "c", "d", "-", "d", "i", "s", "c", "i", "d", " ",
      "o", "u", "t", "p", "u", "t">>
S_InvalidTrackCount ==
    <<"i", "n", "v", "a", "l", "i", "d", " ", "t", "r", "a", "c", "k", " ", "c", "o", "u", "n",
      "t">>
S_CD ==
    <<"C", "D">>
S_AudioCD ==
    <<"A", "u", "d", "i", "o", " ", "C", "D">>
S_MockDiscID ==
    <<"a", "1", "0", "c", "6", "b", "0", "d">>
S_DTITLE ==
    <<"D", "T", "I", "T", "L", "E", "=">>
S_SlashSep ==
    <<" ", "/", " ">>
S_ArtistColon ==
    <<"A", "r", "t", "i", "s", "t", ":">>
S_AlbumColon ==
    <<"A", "l", "b", "u", "m", ":">>
S_DevSr0 ==
    <<"/", "d", "e", "v", "/", "s", "r", "0">>
S_CdDiscidPath ==
    <<"/", "u", "s", "r", "/", "b", "i", "n", "/", "c", "d", "-", "d", "i", "s", "c", "i", "d">>
S_AbcdePath ==
    <<"/", "u", "s", "r", "/", "b", "i", "n", "/", "a", "b", "c", "d", "e">>

\* os/exec: the error text of a tool that ran and exited with status 1
S_ExitStatus1 ==
    <<"e", "x", "i", "t", " ", "s", "t", "a", "t", "u", "s", " ", "1">>
\* os/exec: the error texts of a tool that could not be started

-----------------------------------------------------------------------------
(* Values: errors and descriptors.                                         *)

\* a nil error, and an error with its message
NoErr == [isErr |-> FALSE, msg |-> <<>>]
Errorf(m) == [isErr |-> TRUE, msg |-> m]

\* a nil *CDInfo
NilCD == [nil |-> TRUE]
IsNil(cd) == "nil" \in DOMAIN cd

\* TrackInfo{Number, Title, Artist} as DetectCD fills it
TrackInfo(i) ==
    [Number |-> i + 1, Title |-> <<"T", "r", "a", "c", "k", " ">> \o Format02d(i + 1),
     Artist |-> S_CD, Duration |-> <<>>]

\* the mock descriptor of createMockCD: 10 tracks with a duration
createMockCD ==
    [DiscID |-> S_MockDiscID, CDDBDiscID |-> S_MockDiscID, TrackCount |-> 10,
     Offsets |-> <<150, 12345, 23456, 34567, 45678, 56789, 67890, 78901, 89012,
                   90123, 180000>>,
     Artist |-> S_CD, Album |-> S_AudioCD, Year |-> <<>>, Genre |-> <<>>,
     Tracks |-> [i \in 1..10 |-> [TrackInfo(i - 1) EXCEPT !.Duration = <<"3", ":", "4", "5">>]]]

-----------------------------------------------------------------------------
(* The disc identifier: DetectCD.                                          *)

RECURSIVE ParseOffsets(_, _, _)
\* the offsets loop: parts[i] for 2 <= i < 2+trackCount+1, i < len(parts)
\* (0-based), non-integer tokens skipped; here i is 1-based
ParseOffsets(parts, i, trackCount) ==
    IF ~(i - 1 < 2 + trackCount + 1 /\ i <= Len(parts)) THEN <<>>
    ELSE LET a == Atoi(parts[i])
         IN (IF a.ok THEN <<a.val>> ELSE <<>>) \o ParseOffsets(parts, i + 1, trackCount)

\* a variant of BuildCDInfo that leaves CDDBDiscID unset
BuildCDInfoNoCDDB(discID, trackCount, offsets) ==
    [DiscID |-> discID, CDDBDiscID |-> <<>>, TrackCount |-> trackCount,
     Offsets |-> offsets, Artist |-> S_CD, Album |-> S_AudioCD,
     Year |-> <<>>, Genre |-> <<>>,
     Tracks |-> [i \in 1..trackCount |-> TrackInfo(i - 1)]]

\* the descriptor DetectCD builds from the disc id and the track count
BuildCDInfo(discID, trackCount, offsets) ==
    [DiscID |-> discID, CDDBDiscID |-> discID, TrackCount |-> trackCount,
     Offsets |-> offsets, Artist |-> S_CD, Album |-> S_AudioCD,
     Year |-> <<>>, Genre |-> <<>>,
     Tracks |-> [i \in 1..trackCount |-> TrackInfo(i - 1)]]

\* a variant of DetectError that has no branch for a missing disc
DetectErrorNoDiscBranch(drive, run) ==
    IF Contains(run.err.msg, S_PermissionDenied)
    THEN Errorf(S_PermDeniedAccessing \o drive \o S_TryPermissions)
    ELSE IF Contains(run.err.msg, S_NoSuchFile)
    THEN Errorf(S_DriveSp \o drive \o S_NotFoundCheck)
    ELSE Errorf(S_FailedToDetect \o drive \o S_ColonSp \o run.err.msg)

\* the error branch of DetectCD: the tool could not run or exited non-zero
DetectError(drive, run) ==
    IF Contains(run.err.msg, S_PermissionDenied)
    THEN Errorf(S_PermDeniedAccessing \o drive \o S_TryPermissions)
    ELSE IF Contains(run.err.msg, S_NoSuchFile)
    THEN Errorf(S_DriveSp \o drive \o S_NotFoundCheck)
    ELSE IF Contains(run.output, S_NoDisc) \/ Contains(run.output, S_NoMediumFound)
    THEN Errorf(<<"n", "o", " ", "C", "D", " ", "f", "o", "u", "n", "d", " ", "i", "n", " ",
                  "d", "r", "i", "v", "e", " ">> \o drive)
    ELSE Errorf(S_FailedToDetect \o drive \o S_ColonSp \o run.err.msg)

\* a variant of ParseDiscid that asks for 2 fields only
ParseDiscidTwoFields(output) ==
    LET parts == Fields(TrimSpace(output))
        tc == Atoi(parts[2])
    IN IF Len(parts) < 2
       THEN [cd |-> NilCD, err |-> Errorf(S_InvalidOutput), panic |-> FALSE]
       ELSE IF ~tc.ok
       THEN [cd |-> NilCD, err |-> Errorf(S_InvalidTrackCount), panic |-> FALSE]
       ELSE IF tc.val < 0
       THEN [cd |-> NilCD, err |-> NoErr, panic |-> TRUE]
       ELSE [cd |-> BuildCDInfo(parts[1], tc.val, ParseOffsets(parts, 3, tc.val)),
             err |-> NoErr, panic |-> FALSE]

\* the parse of the tool's output; "panic" is make() with a negative length
ParseDiscid(output) ==
    LET parts == Fields(TrimSpace(output))
        tc == Atoi(parts[2])
    IN IF Len(parts) < 3
       THEN [cd |-> NilCD, err |-> Errorf(S_InvalidOutput), panic |-> FALSE]
       ELSE IF ~tc.ok
       THEN [cd |-> NilCD, err |-> Errorf(S_InvalidTrackCount), panic |-> FALSE]
       ELSE IF tc.val < 0
       THEN [cd |-> NilCD, err |-> NoErr, panic |-> TRUE]
       ELSE [cd |-> BuildCDInfo(parts[1], tc.val, ParseOffsets(parts, 3, tc.val)),
             err |-> NoErr, panic |-> FALSE]

\* DetectCD on configuration cfg, where lookPath says whether cd-discid is on
\* the search path and run is what running the tool gives: the returned
\* descriptor and error, and the tool path DetectCD leaves in the configuration
DetectCD(cfg, lookPath, run) ==
    IF cfg.CDDrive = <<>>
    THEN [cd |-> NilCD, err |-> Errorf(<<"n", "o", " ", "C", "D", " ", "d", "r", "i", "v", "e",
                                         " ", "c", "o", "n", "f", "i", "g", "u", "r", "e",
                                         "d">>), panic |-> FALSE,
          path |-> cfg.CDDiscidPath]
    ELSE IF cfg.CDDiscidPath = <<>> /\ ~lookPath
    THEN [cd |-> createMockCD, err |-> NoErr, panic |-> FALSE, path |-> <<>>]
    ELSE LET path == IF cfg.CDDiscidPath = <<>> THEN S_CdDiscidPath
                     ELSE cfg.CDDiscidPath
         IN IF run.err.isErr
            THEN [cd |-> NilCD, err |-> DetectError(cfg.CDDrive, run),
                  panic |-> FALSE, path |-> path]
            ELSE [path |-> path] @@ ParseDiscid(run.output)

-----------------------------------------------------------------------------
(* Metadata lookup: LookupMetadata, lookupWithAbcde, parseAbcdeOutput.     *)

S_CouldNotParse ==
    <<"c", "o", "u", "l", "d", " ", "n", "o", "t", " ", "p", "a", "r", "s", "e", " ", "a", "r",
      "t", "i", "s", "t", "/", "a", "l", "b", "u", "m", " ", "f", "r", "o", "m", " ", "a", "b",
      "c", "d", "e", " ", "o", "u", "t", "p", "u", "t">>

\* the word after the last "Artist:" (or "Album:") token that has a successor
WordAfter(parts, label) ==
    LET at == {i \in 1..(Len(parts) - 1) : parts[i] = label}
    IN IF at = {} THEN <<>>
       ELSE parts[(CHOOSE i \in at : \A j \in at : j <= i) + 1]

\* the "DTITLE=Artist / Album" pattern on a trimmed line
MatchDTitle(line) ==
    LET title == TrimSpace(SplitN2(line, S_DTITLE)[2])
        artistAlbum == SplitN2(title, S_SlashSep)
    IN IF Contains(line, S_DTITLE) /\ Contains(title, S_SlashSep)
       THEN [hit |-> TRUE, artist |-> TrimSpace(artistAlbum[1]),
             album |-> TrimSpace(artistAlbum[2])]
       ELSE [hit |-> FALSE, artist |-> <<>>, album |-> <<>>]

\* the "Artist: X Album: Y" pattern on a trimmed line
MatchArtistAlbum(line) ==
    LET parts == Fields(line)
        artist == WordAfter(parts, S_ArtistColon)
        album == WordAfter(parts, S_AlbumColon)
    IN IF Contains(line, S_ArtistColon) /\ Contains(line, S_AlbumColon)
          /\ artist # <<>> /\ album # <<>>
       THEN [hit |-> TRUE, artist |-> artist, album |-> album]
       ELSE [hit |-> FALSE, artist |-> <<>>, album |-> <<>>]

\* one iteration of the loop of parseAbcdeOutput
MatchLine(rawLine) ==
    LET line == TrimSpace(rawLine)
        dt == MatchDTitle(line)
    IN IF dt.hit THEN dt ELSE MatchArtistAlbum(line)

\* a variant of parseAbcdeOutput that empties the artist before it looks
parseAbcdeOutputClearing(output, cd) ==
    LET lines == Split(output, <<"\n">>)
        hits == {i \in 1..Len(lines) : MatchLine(lines[i]).hit}
    IN IF hits = {}
       THEN [cd |-> [cd EXCEPT !.Artist = <<>>], err |-> Errorf(S_CouldNotParse)]
       ELSE LET m == MatchLine(lines[CHOOSE i \in hits : \A j \in hits : i <= j])
            IN [cd |-> [cd EXCEPT !.Artist = m.artist, !.Album = m.album],
                err |-> NoErr]

\* a variant of parseAbcdeOutput in which the last matching line decides
parseAbcdeOutputLast(output, cd) ==
    LET lines == Split(output, <<"\n">>)
        hits == {i \in 1..Len(lines) : MatchLine(lines[i]).hit}
    IN IF hits = {}
       THEN [cd |-> cd, err |-> Errorf(S_CouldNotParse)]
       ELSE LET m == MatchLine(lines[CHOOSE i \in hits : \A j \in hits : j <= i])
            IN [cd |-> [cd EXCEPT !.Artist = m.artist, !.Album = m.album],
                err |-> NoErr]

\* parseAbcdeOutput: the first line that matches decides
parseAbcdeOutput(output, cd) ==
    LET lines == Split(output, <<"\n">>)
        hits == {i \in 1..Len(lines) : MatchLine(lines[i]).hit}
    IN IF hits = {}
       THEN [cd |-> cd, err |-> Errorf(S_CouldNotParse)]
       ELSE LET m == MatchLine(lines[CHOOSE i \in hits : \A j \in hits : i <= j])
            IN [cd |-> [cd EXCEPT !.Artist = m.artist, !.Album = m.album],
                err |-> NoErr]

\* lookupWithAbcde: lk is what the host answers (is abcde on the search path,
\* can the temporary directory be made, does the tool run) and its output
lookupWithAbcde(cfg, cd, lk) ==
    IF cfg.AbcdePath = <<>> /\ ~lk.lookPath
    THEN [cd |-> cd, err |-> Errorf(<<"a", "b", "c", "d", "e", " ", "n", "o", "t", " ", "f",
                                      "o", "u", "n", "d", " ", "i", "n", " ", "P", "A", "T",
                                      "H">>)]
    ELSE IF ~lk.mkdirOk
    THEN [cd |-> cd, err |-> Errorf(<<"f", "a", "i", "l", "e", "d", " ", "t", "o", " ", "c",
                                      "r", "e", "a", "t", "e", " ", "t", "e", "m", "p", " ",
                                      "d", "i", "r", "e", "c", "t", "o", "r", "y", ":",
                                      " ">> \o S_PermissionDenied)]
    ELSE IF lk.runFails
    THEN [cd |-> cd, err |-> Errorf(<<"a", "b", "c", "d", "e", " ", "C", "D", "D", "B", " ",
                                      "l", "o", "o", "k", "u", "p", " ", "f", "a", "i", "l",
                                      "e", "d", ":", " ">> \o S_ExitStatus1)]
    ELSE parseAbcdeOutput(lk.output, cd)

\* LookupMetadata
LookupMetadata(cfg, cd, lk) ==
    IF cfg.CDDBMethod = "none"
    THEN [cd |-> cd, err |-> Errorf(<<"C", "D", "D", "B", " ", "m", "e", "t", "h", "o", "d",
                                      " ", "i", "s", " ", "s", "e", "t", " ", "t", "o", " ",
                                      "'", "n", "o", "n", "e", "'", " ", "-", " ", "n", "o",
                                      " ", "m", "e", "t", "a", "d", "a", "t", "a", " ", "l",
                                      "o", "o", "k", "u", "p", " ", "a", "v", "a", "i", "l",
                                      "a", "b", "l", "e">>)]
    ELSE lookupWithAbcde(cfg, cd, lk)

-----------------------------------------------------------------------------
(* The inputs of the identifier: what the external tools answer.           *)

S_PinkFloyd ==
    <<"P", "i", "n", "k", " ", "F", "l", "o", "y", "d">>
S_TheWall ==
    <<"T", "h", "e", " ", "W", "a", "l", "l">>

\* sequences over S of length 0..n
SeqsUpTo(S, n) == UNION {[1..k -> S] : k \in 0..n}

IdTokens == {S_MockDiscID, <<"x", "9">>}
\* the second token with the number it denotes (val), when it denotes one
CountTokens ==
    {[tok |-> <<"0">>, int |-> TRUE, val |-> 0],
     [tok |-> <<"1">>, int |-> TRUE, val |-> 1],
     [tok |-> <<"2">>, int |-> TRUE, val |-> 2],
     [tok |-> <<"1", "2">>, int |-> TRUE, val |-> 12],
     [tok |-> <<"+", "3">>, int |-> TRUE, val |-> 3],
     [tok |-> <<"-", "1">>, int |-> TRUE, val |-> 0 - 1],
     [tok |-> <<"x">>, int |-> FALSE, val |-> 0]}
OffsetTokens == {<<"1", "5", "0">>, <<"7">>, <<"x">>}
\* the number a count token denotes
CountOf(tok) == CHOOSE c \in CountTokens : c.tok = tok

\* the token lists a successful run of the identification tool may print:
\* an id, a count and offsets, or a shorter list
DiscidFields ==
    LET full == {<<id, n.tok>> \o offs : id \in IdTokens, n \in CountTokens,
                                       offs \in SeqsUpTo(OffsetTokens, MaxOffsets)}
    IN full \cup {<<>>} \cup {<<id>> : id \in IdTokens}

\* the tokens as the tool prints them: separated by blanks, ended by a newline
RenderFields(fields, style) ==
    IF style = "plain" THEN Join(fields, <<" ">>) \o <<"\n">>
    ELSE <<" ", " ">> \o Join(fields, <<" ", "\t">>) \o <<"\r", "\n">>

\* runs of the identification tool that fail: it cannot be started (the
\* error names the cause, nothing is captured), or it exits with status 1
FailedRuns ==
    {[err |-> Errorf(e), output |-> <<>>] : e \in {<<"f", "o", "r", "k", "/", "e", "x", "e",
                                                     "c", " ", "/", "u", "s", "r", "/", "b",
                                                     "i", "n", "/", "c", "d", "-", "d", "i",
                                                     "s", "c", "i", "d", ":", " ", "p", "e",
                                                     "r", "m", "i", "s", "s", "i", "o", "n",
                                                     " ", "d", "e", "n", "i", "e", "d">>, <<"f",
                                                     "o", "r", "k", "/", "e", "x", "e", "c",
                                                     " ", "/", "u", "s", "r", "/", "b", "i",
                                                     "n", "/", "c", "d", "-", "d", "i", "s",
                                                     "c", "i", "d", ":", " ", "n", "o", " ",
                                                     "s", "u", "c", "h", " ", "f", "i", "l",
                                                     "e", " ", "o", "r", " ", "d", "i", "r",
                                                     "e", "c", "t", "o", "r", "y">>}}
    \cup {[err |-> Errorf(S_ExitStatus1), output |-> o] :
            o \in {<<>>, S_CdDiscidPath \o S_ColonSp \o S_NoDisc \o <<"\n">>,
                   S_NoMediumFound, <<"N", "o", " ", "d", "i", "s", "c">>,
                   RenderFields(<<S_MockDiscID, <<"1">>, <<"7">>, <<"7">>>>, "plain")}}

\* the lines a lookup tool may print; a and b are the texts around " / "
\* (pre, a, b printed as pre DTITLE=a / b) and artist, album the values the
\* line stands for
LookupLines ==
    {[kind |-> "dtitle", pre |-> <<>>, a |-> S_PinkFloyd, b |-> S_TheWall,
      artist |-> S_PinkFloyd, album |-> S_TheWall],
     [kind |-> "dtitle", pre |-> <<"#", " ">>, a |-> S_TheWall, b |-> S_PinkFloyd,
      artist |-> S_TheWall, album |-> S_PinkFloyd],
     [kind |-> "dtitle", pre |-> <<>>, a |-> <<" ", "X", "\t">>, b |-> S_TheWall,
      artist |-> <<"X">>, album |-> S_TheWall],
     [kind |-> "dtitle", pre |-> <<>>, a |-> <<"A", "C">>,
      b |-> <<"D", "C", " ", "/", " ", "L">>,
      artist |-> <<"A", "C">>, album |-> <<"D", "C", " ", "/", " ", "L">>],
     [kind |-> "artistAlbum", pre |-> <<>>, a |-> <<>>, b |-> <<>>,
      artist |-> <<"F", "o", "o">>, album |-> <<"B", "a", "r">>]}
    \cup {[kind |-> k, pre |-> <<>>, a |-> <<>>, b |-> <<>>,
           artist |-> <<>>, album |-> <<>>] :
            k \in {"junk", "dtitleNoSlash", "artistOnly"}}

\* a lookup line as text
RenderLine(l) ==
    CASE l.kind = "dtitle" -> l.pre \o S_DTITLE \o l.a \o S_SlashSep \o l.b \o <<" ">>
      [] l.kind = "artistAlbum" ->
            S_ArtistColon \o <<" ", "F", "o", "o", " ">> \o S_AlbumColon \o <<" ", "B", "a", "r">>
      [] l.kind = "junk" -> <<"G", "r", "a", "b", " ", "/", " ", "x">>
      [] l.kind = "dtitleNoSlash" -> S_DTITLE \o <<"N", "o", "/", "S">>
      [] OTHER -> S_ArtistColon \o <<" ">> \o S_AlbumColon

RECURSIVE RenderLines(_)
RenderLines(ls) ==
    IF ls = <<>> THEN <<>>
    ELSE RenderLine(Head(ls)) \o <<"\n">> \o RenderLines(Tail(ls))

\* what the host answers to a lookup
LookupHosts ==
    {[lookPath |-> lp, mkdirOk |-> mk, runFails |-> rf] :
        lp \in BOOLEAN, mk \in BOOLEAN, rf \in BOOLEAN}

-----------------------------------------------------------------------------
(* The configuration.                                                      *)

\* the home directory os.UserHomeDir gives on the host
HomeDir == <<"/", "h">>

S_MusicDir ==
    <<"/", "m", "n", "t", "/", "n", "a", "s", "/", "m", "e", "d", "i", "a", "/", "m", "u", "s",
      "i", "c">>
S_MoviesDir ==
    <<"/", "m", "n", "t", "/", "n", "a", "s", "/", "m", "e", "d", "i", "a", "/", "m", "o", "v",
      "i", "e", "s">>
S_ConfigDir ==
    HomeDir \o <<"/", ".", "c", "o", "n", "f", "i", "g", "/", "m", "e", "d", "i", "a", "-", "r",
                 "i", "p", "p", "e", "r">>
S_LogFile ==
    HomeDir \o <<"/", "c", "d", "-", "r", "i", "p", "p", "e", "r", ".", "l", "o", "g">>
S_DefaultTheme ==
    <<"d", "e", "f", "a", "u", "l", "t">>

DefaultConfig ==
    [CDDrive |-> S_DevSr0, CDDiscidPath |-> <<>>, AbcdePath |-> <<>>,
     CDDBMethod |-> "musicbrainz", OutputFormat |-> "flac",
     AutoEject |-> TRUE, VerboseLogging |-> FALSE,
     Music |-> S_MusicDir, Movies |-> S_MoviesDir, Config |-> S_ConfigDir,
     LogFile |-> S_LogFile, MakeMKVPath |-> <<>>,
     RetryCount |-> 3, RetryDelay |-> 5, InitialWait |-> 10,
     Theme |-> S_DefaultTheme, RefreshRate |-> 100]

\* the configurations DetectCD reads: the drive and the tool path
DetectConfigs ==
    {[DefaultConfig EXCEPT !.CDDrive = d, !.CDDiscidPath = p] :
        d \in {<<>>, S_DevSr0}, p \in {<<>>, S_CdDiscidPath}}

\* the configurations LookupMetadata reads: the tool path and the method
LookupConfigs ==
    {[DefaultConfig EXCEPT !.AbcdePath = a, !.CDDBMethod = m] :
        a \in {<<>>, S_AbcdePath}, m \in {"none", "cddb"}}

-----------------------------------------------------------------------------
(* Idle values of the parts a specification does not exercise.             *)

NoCall ==
    [op |-> "none", drive |-> <<>>, pathSet |-> FALSE, lookPath |-> FALSE,
     run |-> [err |-> NoErr, output |-> <<>>], fields |-> <<>>,
     lines |-> <<>>, lk |-> [lookPath |-> FALSE, mkdirOk |-> FALSE, runFails |-> FALSE],
     method |-> "none", err |-> NoErr, panic |-> FALSE, before |-> NilCD]

IdentIdle == cdInfo = NilCD /\ identCall = NoCall

-----------------------------------------------------------------------------
(* The identifier: a call of DetectCD, or of LookupMetadata, on a CDRipper  *)
(* whose configuration and whose tools' answers are drawn from the sets    *)
(* above.                                                                  *)

\* a call of DetectCD whose tool run is `run` (printed from `fields`)
DetectCDCall(lookPath, run, fields) ==
    LET r == DetectCD(config, lookPath, run)
    IN /\ identCall.op = "none"
       /\ cdInfo' = r.cd
       /\ config' = [config EXCEPT !.CDDiscidPath = r.path]
       /\ identCall' = [NoCall EXCEPT !.op = "DetectCD", !.drive = config.CDDrive,
                           !.pathSet = (config.CDDiscidPath # <<>>),
                           !.lookPath = lookPath, !.run = run, !.fields = fields,
                           !.err = r.err, !.panic = r.panic, !.before = cdInfo]

\* DetectCD when the tool runs and exits with status 0
DetectCDOk ==
    \E lookPath \in BOOLEAN, fields \in DiscidFields, style \in {"plain", "padded"} :
        DetectCDCall(lookPath, [err |-> NoErr, output |-> RenderFields(fields, style)],
                     fields)

\* DetectCD when the tool cannot be started or exits non-zero
DetectCDFail ==
    \E lookPath \in BOOLEAN, run \in FailedRuns : DetectCDCall(lookPath, run, <<>>)

\* LookupMetadata on the descriptor DetectCD returned
LookupMetadataCall ==
    \E lk \in LookupHosts, lines \in SeqsUpTo(LookupLines, MaxLines) :
        LET r == LookupMetadata(config, cdInfo, lk @@ [output |-> RenderLines(lines)])
        IN /\ identCall.op = "none"
           /\ ~IsNil(cdInfo)
           /\ cdInfo' = r.cd
           /\ identCall' = [NoCall EXCEPT !.op = "LookupMetadata", !.lines = lines,
                               !.lk = lk, !.method = config.CDDBMethod,
                               !.pathSet = (config.AbcdePath # <<>>),
                               !.err = r.err, !.before = cdInfo]
           /\ UNCHANGED config

DrivesIdle ==
    /\ host = [files |-> {}, dirs |-> {}, sysBlockOk |-> FALSE, sysBlock |-> {}]
    /\ drivesOut = [called |-> FALSE, drives |-> <<>>, err |-> NoErr]

\* a CDRipper as NewCDRipper makes it: no rip yet, an empty channel, a
\* context that is not cancelled
RipIdle ==
    /\ ripPc = "idle" /\ ripTrack = 0 /\ ripN = 0
    /\ ctxDone = FALSE
    /\ progressCh = <<>> /\ emitted = <<>> /\ received = <<>>
    /\ ripRet = "none" /\ sessions = 0 /\ stopDuring = FALSE

\* no subprocess has been started
ProcIdle ==
    /\ proc = [state |-> "none", script |-> [out |-> <<>>, err |-> <<>>, exit |-> "ok"],
               out |-> <<>>, err |-> <<>>, wrote |-> <<>>, status |-> "none",
               waiter |-> "off", done |-> "none"]
    /\ pipes = [closed |-> FALSE, out |-> <<>>, err |-> <<>>]
    /\ scan = [monPc |-> "off", outPc |-> "off", outLine |-> <<>>, seen |-> <<>>,
               errPc |-> "off", errLine |-> <<>>, currentTrack |-> 0]

\* initialModel, before the drives are detected; saved stands for the config
\* file as Config.Save last wrote it (<<>>: not written by this run)
InitialModel(drives) ==
    [currentScreen |-> "WelcomeScreen", selectedItem |-> 0, availableDrives |-> drives,
     isRipping |-> FALSE, rippingProgress |-> 0, rippingStatus |-> "",
     cdInfo |-> "nil", spinnerFrame |-> 0, quit |-> FALSE,
     isEditing |-> FALSE, editValue |-> <<>>, saved |-> <<>>]

UIIdle ==
    /\ ui = InitialModel(<<>>)
    /\ uiCmds = [detect |-> 0, tick |-> 0, listen |-> 0]
    /\ uiRips = <<>>

\* the script before main runs: nothing scanned, read or invoked
ScriptIdle ==
    sh = [pc |-> "start", max_title |-> 0, disc_title |-> <<>>, input |-> <<>>,
          selected_title |-> <<>>, confirm |-> <<>>, movie_name |-> <<>>,
          proceed |-> <<>>, asked |-> {}, mkv |-> <<>>, exit |-> "none"]

\* descriptors DetectCD has returned, on which a lookup may be asked
DetectedCDs ==
    {createMockCD, BuildCDInfo(<<"x", "9">>, 2, <<150, 7>>)}

InitDetect ==
    /\ config \in DetectConfigs
    /\ IdentIdle /\ DrivesIdle /\ RipIdle /\ ProcIdle /\ UIIdle /\ ScriptIdle

NextDetect ==
    \/ DetectCDOk /\ UNCHANGED <<drivesVars, ripVars, procVars, uiVars, scriptVars>>
    \/ DetectCDFail /\ UNCHANGED <<drivesVars, ripVars, procVars, uiVars, scriptVars>>

SpecDetect == InitDetect /\ [][NextDetect]_vars

InitLookup ==
    /\ config \in LookupConfigs
    /\ cdInfo \in DetectedCDs
    /\ identCall = NoCall
    /\ DrivesIdle /\ RipIdle /\ ProcIdle /\ UIIdle /\ ScriptIdle

NextLookup == LookupMetadataCall /\ UNCHANGED <<drivesVars, ripVars, procVars, uiVars, scriptVars>>

SpecLookup == InitLookup /\ [][NextLookup]_vars

-----------------------------------------------------------------------------
(* Properties of DetectCD (under SpecDetect).                              *)

S_NoCDFound ==
    <<"n", "o", " ", "C", "D", " ", "f", "o", "u", "n", "d">>

\* the last call was DetectCD and it ran the identification tool
DetectRanTool ==
    /\ identCall.op = "DetectCD"
    /\ identCall.drive # <<>>
    /\ (identCall.pathSet \/ identCall.lookPath)

\* ... and the tool exited with status 0
DetectToolOk == DetectRanTool /\ ~identCall.run.err.isErr

\* the tool printed at least 3 fields, the second a non-negative integer
ValidDiscidFields(fields) ==
    /\ Len(fields) >= 3
    /\ CountOf(fields[2]).int
    /\ CountOf(fields[2]).val >= 0

\* C3: when the identification tool exits with status 0 and prints
\* "<id> <n> <offsets...>" (at least 3 fields, n a non-negative integer),
\* DetectCD returns no error and a descriptor with DiscID = CDDBDiscID = <id>,
\* TrackCount = n and n tracks.
C3_DetectParsesIdAndCount ==
    (DetectToolOk /\ ValidDiscidFields(identCall.fields)) =>
        /\ ~identCall.err.isErr
        /\ ~identCall.panic
        /\ ~IsNil(cdInfo)
        /\ cdInfo.DiscID = identCall.fields[1]
        /\ cdInfo.CDDBDiscID = identCall.fields[1]
        /\ cdInfo.TrackCount = CountOf(identCall.fields[2]).val
        /\ Len(cdInfo.Tracks) = CountOf(identCall.fields[2]).val

\* C3's case: a 12-track disc printed with fewer offsets than tracks
C3_Witness ==
    /\ DetectToolOk
    /\ ValidDiscidFields(identCall.fields)
    /\ identCall.fields[2] = <<"1", "2">>
    /\ ~IsNil(cdInfo)
    /\ cdInfo.TrackCount = 12

\* C4: when the identification tool exits with status 0 and prints fewer
\* than 3 fields (nothing at all included), DetectCD returns an error and a
\* nil descriptor.
C4_ShortOutputIsError ==
    (DetectToolOk /\ Len(identCall.fields) < 3) =>
        /\ identCall.err.isErr
        /\ IsNil(cdInfo)
        /\ ~identCall.panic

\* C4's case: two fields, an id and a valid count, and no descriptor
C4_Witness ==
    /\ DetectToolOk
    /\ Len(identCall.fields) = 2
    /\ CountOf(identCall.fields[2]).int
    /\ identCall.err.isErr
    /\ IsNil(cdInfo)

\* C5: in every descriptor DetectCD returns (the mock descriptor included)
\* the tracks are numbered 1..n in order and track i is titled "Track "
\* followed by the two decimal digits of i (i < 100).
C5_TrackNumbersAndTitles ==
    (identCall.op = "DetectCD" /\ ~IsNil(cdInfo)) =>
        /\ DOMAIN cdInfo.Tracks = 1..cdInfo.TrackCount
        /\ \A i \in 1..cdInfo.TrackCount :
              /\ cdInfo.Tracks[i].Number = i
              /\ i < 100 =>
                    cdInfo.Tracks[i].Title =
                        <<"T", "r", "a", "c", "k", " ",
                          DigitChars[(i \div 10) + 1], DigitChars[(i % 10) + 1]>>

\* C5's case: a parsed 12-track descriptor, with "Track 09" and "Track 12"
C5_Witness ==
    /\ DetectToolOk
    /\ ~IsNil(cdInfo)
    /\ cdInfo.TrackCount = 12
    /\ cdInfo.Tracks[9].Title = <<"T", "r", "a", "c", "k", " ", "0", "9">>
    /\ cdInfo.Tracks[12].Title = <<"T", "r", "a", "c", "k", " ", "1", "2">>

\* C17 as stated: every descriptor DetectCD builds from the tool's output has
\* TrackCount + 1 offsets, the last of them the number of the output's last
\* token.
C17_AsStated ==
    (DetectToolOk /\ ~IsNil(cdInfo)) =>
        /\ Len(cdInfo.Offsets) = cdInfo.TrackCount + 1
        /\ Atoi(identCall.fields[Len(identCall.fields)]).ok
        /\ cdInfo.Offsets[Len(cdInfo.Offsets)] =
               Atoi(identCall.fields[Len(identCall.fields)]).val

\* C8: when the identification tool cannot be run or exits non-zero,
\* DetectCD returns a nil descriptor and an error; when the tool exited
\* non-zero and its output contains "no disc" or "No medium found", the
\* error's message contains "no CD found".
C8_ToolFailureIsError ==
    (DetectRanTool /\ identCall.run.err.isErr) =>
        /\ IsNil(cdInfo)
        /\ identCall.err.isErr
        /\ (/\ identCall.run.err.msg = S_ExitStatus1
            /\ \/ Contains(identCall.run.output, S_NoDisc)
               \/ Contains(identCall.run.output, S_NoMediumFound))
           => Contains(identCall.err.msg, S_NoCDFound)

\* C8's case: exit status 1 with "no disc" in the captured output
C8_Witness ==
    /\ DetectRanTool
    /\ identCall.run.err.msg = S_ExitStatus1
    /\ Contains(identCall.run.output, S_NoDisc)
    /\ IsNil(cdInfo)
    /\ Contains(identCall.err.msg, S_NoCDFound)

-----------------------------------------------------------------------------
(* Properties of parseAbcdeOutput (under SpecLookup).                      *)

\* the last call was LookupMetadata and it reached parseAbcdeOutput
LookupParsed ==
    /\ identCall.op = "LookupMetadata"
    /\ identCall.method # "none"
    /\ (identCall.pathSet \/ identCall.lk.lookPath)
    /\ identCall.lk.mkdirOk
    /\ ~identCall.lk.runFails

\* the lines of the output that carry one of the two patterns
Matching(lines, kinds) == {i \in 1..Len(lines) : lines[i].kind \in kinds}
First(S) == CHOOSE i \in S : \A j \in S : i <= j

\* C9 as stated: whenever the output has a "DTITLE=A / B" line, artist and
\* album become the A and B of the first such line and no error is returned.
C9_AsStated ==
    (LookupParsed /\ Matching(identCall.lines, {"dtitle"}) # {}) =>
        LET l == identCall.lines[First(Matching(identCall.lines, {"dtitle"}))]
        IN /\ ~identCall.err.isErr
           /\ cdInfo.Artist = l.artist
           /\ cdInfo.Album = l.album

\* C9 (amended): when the first line of the output that carries either
\* pattern ("DTITLE=A / B", or "Artist: X" and "Album: Y" tokens) is a
\* "DTITLE=A / B" line, artist and album become A and B (trimmed, split at
\* the first " / ") and no error is returned; later lines do not matter.
C9_FirstMatchingLineWins ==
    LET m == Matching(identCall.lines, {"dtitle", "artistAlbum"})
    IN (LookupParsed /\ m # {} /\ identCall.lines[First(m)].kind = "dtitle") =>
          /\ ~identCall.err.isErr
          /\ cdInfo.Artist = identCall.lines[First(m)].artist
          /\ cdInfo.Album = identCall.lines[First(m)].album

\* C9's case: "DTITLE=Pink Floyd / The Wall" followed by another DTITLE line
C9_Witness ==
    /\ LookupParsed
    /\ Len(identCall.lines) = 2
    /\ identCall.lines[1].kind = "dtitle"
    /\ identCall.lines[1].a = S_PinkFloyd
    /\ identCall.lines[2].kind = "dtitle"
    /\ identCall.lines[2].a # S_PinkFloyd
    /\ cdInfo.Artist = S_PinkFloyd
    /\ cdInfo.Album = S_TheWall

\* C23: LookupMetadata leaves every field of the descriptor but artist and
\* album as it was; when the method is 'none', the tool is not found, the
\* temporary directory cannot be made, the tool fails or no line of its
\* output carries a pattern, it returns an error; and whenever it returns an
\* error the descriptor is entirely as it was before the call.
C23_LookupFrame ==
    identCall.op = "LookupMetadata" =>
        /\ [cdInfo EXCEPT !.Artist = <<>>, !.Album = <<>>] =
              [identCall.before EXCEPT !.Artist = <<>>, !.Album = <<>>]
        /\ (\/ identCall.method = "none"
            \/ ~identCall.pathSet /\ ~identCall.lk.lookPath
            \/ ~identCall.lk.mkdirOk
            \/ identCall.lk.runFails
            \/ Matching(identCall.lines, {"dtitle", "artistAlbum"}) = {})
              => identCall.err.isErr
        /\ identCall.err.isErr => cdInfo = identCall.before

\* C23's case: the tool ran and printed two lines without a pattern; the
\* lookup returned an error and the two-track descriptor is as it was
C23_Witness ==
    /\ LookupParsed
    /\ Len(identCall.lines) = 2
    /\ Matching(identCall.lines, {"dtitle", "artistAlbum"}) = {}
    /\ identCall.err.isErr
    /\ cdInfo = identCall.before
    /\ cdInfo.TrackCount = 2

-----------------------------------------------------------------------------
(* The drive locator: DetectDrives.                                        *)

S_DevSr1 ==
    <<"/", "d", "e", "v", "/", "s", "r", "1">>
S_DevCdrom ==
    <<"/", "d", "e", "v", "/", "c", "d", "r", "o", "m">>
S_DevDvd ==
    <<"/", "d", "e", "v", "/", "d", "v", "d">>
S_sr ==
    <<"s", "r">>

\* the fixed device paths DetectDrives probes, in order
devicePaths ==
    <<S_DevSr0, S_DevSr1, <<"/", "d", "e", "v", "/", "s", "r", "2">>, <<"/", "d", "e", "v", "/",
                            "s", "r", "3">>, S_DevCdrom, S_DevDvd, <<"/", "d", "e", "v", "/",
                            "c", "d", "r", "w">>>>

\* filepath.Base of a path that does not end in a slash
Base(path) ==
    LET slashes == {i \in 1..Len(path) : path[i] = "/"}
    IN IF slashes = {} THEN path
       ELSE SubSeq(path, (CHOOSE i \in slashes : \A j \in slashes : j <= i) + 1,
                   Len(path))

\* the pattern ^sr\d+$
srPattern(name) ==
    /\ Len(name) >= 3
    /\ HasPrefix(name, S_sr)
    /\ \A i \in 3..Len(name) : IsDigit(name[i])

\* getDeviceModel: the model file, else the vendor file, else a placeholder.
\* h.modelFile and h.vendorFile are what os.ReadFile gives for the device.
getDeviceModel(h, device) ==
    IF h.modelFile.ok THEN TrimSpace(h.modelFile.data)
    ELSE IF h.vendorFile.ok THEN TrimSpace(h.vendorFile.data)
    ELSE <<"U", "n", "k", "n", "o", "w", "n", " ", "D", "r", "i", "v", "e">>

\* isReadOnlyDevice: the ro file holds "1"
isReadOnlyDevice(h, device) ==
    h.roFile.ok /\ TrimSpace(h.roFile.data) = <<"1">>

\* detectMediaType: from the capabilities file, else from the device name
detectMediaType(h, device) ==
    IF h.infoFile.ok /\ Contains(h.infoFile.data, <<"D", "V", "D">>) THEN "DVD/CD"
    ELSE IF h.infoFile.ok /\ Contains(h.infoFile.data, <<"B", "D">>) THEN "Blu-ray/DVD/CD"
    ELSE IF HasPrefix(Base(device), S_sr) THEN "CD/DVD"
    ELSE "Unknown"

\* the DriveInfo of a device
DriveInfo(h, device) ==
    [Device |-> device, Model |-> getDeviceModel(h, device),
     IsReadOnly |-> isReadOnlyDevice(h, device),
     MediaType |-> detectMediaType(h, device)]

RECURSIVE ScanEntries(_, _, _)
\* the loop of scanSysBlock over the entries: an sr* entry is added unless
\* the list built by this scan already holds its device
ScanEntries(h, entries, drives) ==
    IF entries = <<>> THEN drives
    ELSE LET device == <<"/", "d", "e", "v", "/">> \o Head(entries)
             found == \E k \in 1..Len(drives) : drives[k].Device = device
         IN ScanEntries(h, Tail(entries),
                        IF srPattern(Head(entries)) /\ ~found
                        THEN Append(drives, DriveInfo(h, device))
                        ELSE drives)

\* the names of /sys/block in the order os.ReadDir gives them (sorted)
SysBlockNames ==
    <<<<"l", "o", "o", "p", "0">>, <<"s", "d", "a">>, <<"s", "r", "0">>,
      <<"s", "r", "1">>, <<"s", "r", "1", "0">>, <<"s", "r", "x">>>>

ReadDir(h) ==
    LET In(n) == n \in h.sysBlock IN SelectSeq(SysBlockNames, In)

\* scanSysBlock: the drives and whether reading /sys/block failed
scanSysBlock(h) ==
    IF ~h.sysBlockOk THEN [drives |-> <<>>, err |-> Errorf(S_PermissionDenied)]
    ELSE [drives |-> ScanEntries(h, ReadDir(h), <<>>), err |-> NoErr]

RECURSIVE ProbePaths(_, _)
\* the loop of DetectDrives over the fixed paths: those that exist and are
\* not directories
ProbePaths(h, paths) ==
    IF paths = <<>> THEN <<>>
    ELSE (IF Head(paths) \in h.files THEN <<DriveInfo(h, Head(paths))>> ELSE <<>>)
         \o ProbePaths(h, Tail(paths))

\* a variant of DetectDrives that returns the error of scanSysBlock
DetectDrivesPropagating(h) ==
    LET sys == scanSysBlock(h)
    IN [called |-> TRUE, drives |-> ProbePaths(h, devicePaths) \o sys.drives,
        err |-> sys.err]

\* DetectDrives: the probed paths, then the scanned registry when readable
DetectDrives(h) ==
    LET sys == scanSysBlock(h)
    IN [called |-> TRUE,
        drives |-> ProbePaths(h, devicePaths)
                   \o (IF ~sys.err.isErr THEN sys.drives ELSE <<>>),
        err |-> NoErr]

\* what os.ReadFile gives: an error, or the file's data
NoFile == [ok |-> FALSE, data |-> <<>>]
File(d) == [ok |-> TRUE, data |-> d]

\* the hosts: which probed paths exist as device files and which as
\* directories, whether /sys/block can be read and what it lists, and the
\* metadata files beside a device
Hosts ==
    {[files |-> f, dirs |-> d, sysBlockOk |-> ok, sysBlock |-> sb,
      modelFile |-> m, vendorFile |-> v, roFile |-> ro, infoFile |-> info] :
        f \in SUBSET {S_DevSr0, S_DevSr1, S_DevCdrom},
        d \in {{}, {S_DevDvd}},
        ok \in BOOLEAN,
        sb \in SUBSET {<<"s", "d", "a">>, <<"s", "r", "0">>, <<"s", "r", "1", "0">>,
                       <<"s", "r", "x">>},
        m \in {NoFile, File(<<" ", "W", "H", "1", "6", "\n">>)},
        v \in {NoFile, File(<<"H", "L", " ", "\n">>)},
        ro \in {NoFile, File(<<"1", "\n">>)},
        info \in {NoFile, File(<<"C", "a", "n", " ", "r", "e", "a", "d", " ", "D", "V", "D">>),
                  File(<<"B", "D", "-", "R">>)}}

\* a call of DetectDrives on the host
DetectDrivesCall ==
    /\ drivesOut' = DetectDrives(host)
    /\ UNCHANGED <<config, host, identVars, ripVars, procVars, uiVars, scriptVars>>

InitDrives ==
    /\ host \in Hosts
    /\ drivesOut = [called |-> FALSE, drives |-> <<>>, err |-> NoErr]
    /\ config = DefaultConfig
    /\ IdentIdle /\ RipIdle /\ ProcIdle /\ UIIdle /\ ScriptIdle

NextDrives == DetectDrivesCall

SpecDrives == InitDrives /\ [][NextDrives]_vars

\* no probed path is a device file and the registry lists no sr* entry
NoOpticalDevice ==
    /\ host.files = {}
    /\ \A n \in host.sysBlock : n \notin {<<"s", "r", "0">>, <<"s", "r", "1", "0">>}

\* C7: DetectDrives returns a nil error on every host (no device path, an
\* unreadable registry, missing metadata files), and an empty list when no
\* optical device exists.
C7_DetectDrivesNeverFails ==
    drivesOut.called =>
        /\ ~drivesOut.err.isErr
        /\ NoOpticalDevice => drivesOut.drives = <<>>

\* C7's case: no device file, an unreadable registry, no metadata files
C7_Witness ==
    /\ drivesOut.called
    /\ host.files = {}
    /\ host.dirs # {}
    /\ ~host.sysBlockOk
    /\ ~host.modelFile.ok /\ ~host.vendorFile.ok /\ ~host.roFile.ok /\ ~host.infoFile.ok
    /\ drivesOut.drives = <<>>
    /\ ~drivesOut.err.isErr

\* C16 as stated: no two entries of the list DetectDrives returns have the
\* same device path.
C16_AsStated ==
    drivesOut.called =>
        \A i, j \in 1..Len(drivesOut.drives) :
            i # j => drivesOut.drives[i].Device # drivesOut.drives[j].Device

-----------------------------------------------------------------------------
(* The rip session of cd.go: RipCD hands over to simulateRipping.  Every   *)
(* send on the progress channel is a step of its own, which blocks while   *)
(* the channel is full.                                                    *)

\* the capacity of progressCh
ChanCap == 10

\* a ProgressInfo; sess (history) is the RipCD call that sent it
ProgressInfo(currentTrack, totalTracks, status, progress, error) ==
    [CurrentTrack |-> currentTrack, TotalTracks |-> totalTracks, Status |-> status,
     Progress |-> progress, Error |-> error, sess |-> sessions]

InitialEvent == ProgressInfo(0, ripN, "Initializing rip...", 0, "nil")
CancelledEvent == ProgressInfo(0, 0, "Ripping cancelled", 0, "operation cancelled")
CompletedEvent == ProgressInfo(ripN, ripN, "Ripping completed successfully!", 100, "nil")

\* the progress of the ripping phase and of the encoding phase
RipProgress(track, total) == (track * 50) \div total
EncodeProgress(track, total) == 50 + ((track * 50) \div total)

RippingEvent(track) ==
    ProgressInfo(track, ripN, "Ripping track %d of %d...", RipProgress(track, ripN), "nil")
EncodingEvent(track) ==
    ProgressInfo(track, ripN, "Encoding track %d of %d...", EncodeProgress(track, ripN),
                 "nil")

\* (a send that drops the event when the buffer is full)
SendOrDrop(ev) ==
    /\ progressCh' = IF Len(progressCh) < ChanCap THEN Append(progressCh, ev)
                     ELSE progressCh
    /\ emitted' = Append(emitted, ev)

\* r.progressCh <- ev: possible while the buffer has room
Send(ev) ==
    /\ Len(progressCh) < ChanCap
    /\ progressCh' = Append(progressCh, ev)
    /\ emitted' = Append(emitted, ev)

\* the session has work left that passes a cancellation check
CheckAhead ==
    \/ ripPc \in {"ripCheck", "encCheck"} /\ ripTrack <= ripN
    \/ ripPc = "ripSend"
    \/ ripPc = "encSend" /\ ripTrack < ripN

\* (a RipCD that sends the initial event before its two checks)
RipCDCallEventFirst(n, lookPath, mkdirOk) ==
    LET ev == [ProgressInfo(0, n, "Initializing rip...", 0, "nil")
                  EXCEPT !.sess = sessions + 1]
    IN /\ ripPc \in {"idle", "done"}
       /\ sessions < MaxSessions /\ Len(progressCh) < ChanCap
       /\ sessions' = sessions + 1
       /\ ripN' = n /\ ripTrack' = 1
       /\ progressCh' = Append(progressCh, ev)
       /\ emitted' = <<ev>> /\ received' = <<>> /\ stopDuring' = FALSE
       /\ IF config.AbcdePath = <<>> /\ ~lookPath
          THEN /\ ripRet' = "abcde tool not found in PATH and not configured"
               /\ ripPc' = "done"
               /\ UNCHANGED config
          ELSE /\ config' = [config EXCEPT !.AbcdePath =
                                IF @ = <<>> THEN S_AbcdePath ELSE @]
               /\ IF mkdirOk THEN ripRet' = "none" /\ ripPc' = "ripCheck"
                  ELSE /\ ripRet' = "failed to create output directory"
                       /\ ripPc' = "done"
       /\ UNCHANGED ctxDone

\* RipCD up to the initial event, on a disc of n tracks: the tool is resolved
\* (configured, or found on the search path when lookPath) and the output
\* directory is made (mkdirOk)
RipCDCall(n, lookPath, mkdirOk) ==
    /\ ripPc \in {"idle", "done"}
    /\ sessions < MaxSessions
    /\ sessions' = sessions + 1
    /\ ripN' = n /\ ripTrack' = 0
    /\ emitted' = <<>> /\ received' = <<>> /\ stopDuring' = FALSE
    /\ IF config.AbcdePath = <<>> /\ ~lookPath
       THEN /\ ripRet' = "abcde tool not found in PATH and not configured"
            /\ ripPc' = "done"
            /\ UNCHANGED config
       ELSE /\ config' = [config EXCEPT !.AbcdePath =
                             IF @ = <<>> THEN S_AbcdePath ELSE @]
            /\ IF mkdirOk THEN ripRet' = "none" /\ ripPc' = "init"
               ELSE /\ ripRet' = "failed to create output directory"
                    /\ ripPc' = "done"
    /\ UNCHANGED <<ctxDone, progressCh>>

RipCDStart ==
    \E n \in 0..MaxTracks, lookPath \in BOOLEAN, mkdirOk \in BOOLEAN :
        RipCDCall(n, lookPath, mkdirOk)

\* the initial event
SendInitial ==
    /\ ripPc = "init"
    /\ Send(InitialEvent)
    /\ ripPc' = "ripCheck" /\ ripTrack' = 1
    /\ UNCHANGED <<config, ripN, ctxDone, received, ripRet, sessions, stopDuring>>

\* the head of the ripping loop: the loop test and the cancellation check
RipCheck ==
    /\ ripPc = "ripCheck"
    /\ IF ripTrack > ripN THEN ripPc' = "encCheck" /\ ripTrack' = 1
       ELSE IF ctxDone THEN ripPc' = "ripCancel" /\ UNCHANGED ripTrack
       ELSE ripPc' = "ripSend" /\ UNCHANGED ripTrack
    /\ UNCHANGED <<config, ripN, ctxDone, progressCh, emitted, received, ripRet,
                   sessions, stopDuring>>

\* cancelled in the ripping phase: the Cancelled event, then the return
RipCancel ==
    /\ ripPc = "ripCancel"
    /\ Send(CancelledEvent)
    /\ ripRet' = "operation cancelled" /\ ripPc' = "done"
    /\ UNCHANGED <<config, ripTrack, ripN, ctxDone, received, sessions, stopDuring>>

\* "Ripping track k of n"
RipSend ==
    /\ ripPc = "ripSend"
    /\ Send(RippingEvent(ripTrack))
    /\ ripTrack' = ripTrack + 1 /\ ripPc' = "ripCheck"
    /\ UNCHANGED <<config, ripN, ctxDone, received, ripRet, sessions, stopDuring>>

\* the head of the encoding loop: cancelled here, RipCD returns at once
EncCheck ==
    /\ ripPc = "encCheck"
    /\ IF ripTrack > ripN THEN ripPc' = "complete" /\ UNCHANGED ripRet
       ELSE IF ctxDone THEN ripPc' = "done" /\ ripRet' = "operation cancelled"
       ELSE ripPc' = "encSend" /\ UNCHANGED ripRet
    /\ UNCHANGED <<config, ripTrack, ripN, ctxDone, progressCh, emitted, received,
                   sessions, stopDuring>>

\* "Encoding track k of n"
EncSend ==
    /\ ripPc = "encSend"
    /\ Send(EncodingEvent(ripTrack))
    /\ ripTrack' = ripTrack + 1 /\ ripPc' = "encCheck"
    /\ UNCHANGED <<config, ripN, ctxDone, received, ripRet, sessions, stopDuring>>

\* the completion event, then return nil
Complete ==
    /\ ripPc = "complete"
    /\ Send(CompletedEvent)
    /\ ripRet' = "nil" /\ ripPc' = "done"
    /\ UNCHANGED <<config, ripTrack, ripN, ctxDone, received, sessions, stopDuring>>

\* Stop(): r.cancel()
Stop ==
    /\ ctxDone' = TRUE
    /\ stopDuring' = (stopDuring \/ CheckAhead)
    /\ UNCHANGED <<config, ripPc, ripTrack, ripN, progressCh, emitted, received,
                   ripRet, sessions>>

\* a consumer takes the oldest event from the channel
Receive ==
    /\ progressCh # <<>>
    /\ received' = Append(received, Head(progressCh))
    /\ progressCh' = Tail(progressCh)
    /\ UNCHANGED <<config, ripPc, ripTrack, ripN, ctxDone, emitted, ripRet, sessions,
                   stopDuring>>

RipConfigs == {[DefaultConfig EXCEPT !.AbcdePath = a] : a \in {<<>>, S_AbcdePath}}

InitRip ==
    /\ config \in RipConfigs
    /\ IdentIdle /\ DrivesIdle /\ RipIdle /\ ProcIdle /\ UIIdle /\ ScriptIdle

\* what a rip session leaves alone
notRipVars == <<identVars, drivesVars, procVars, uiVars, scriptVars>>

NextRip ==
    \/ RipCDStart /\ UNCHANGED notRipVars
    \/ SendInitial /\ UNCHANGED notRipVars
    \/ RipCheck /\ UNCHANGED notRipVars
    \/ RipCancel /\ UNCHANGED notRipVars
    \/ RipSend /\ UNCHANGED notRipVars
    \/ EncCheck /\ UNCHANGED notRipVars
    \/ EncSend /\ UNCHANGED notRipVars
    \/ Complete /\ UNCHANGED notRipVars
    \/ Stop /\ UNCHANGED notRipVars
    \/ Receive /\ UNCHANGED notRipVars

SpecRip == InitRip /\ [][NextRip]_vars

\* the last event the session has sent
LastEmitted == emitted[Len(emitted)]

\* C1 as stated: the percentages of a session's events never decrease in
\* emission order, and only the completion event carries 100.
C1_AsStated ==
    /\ \A i \in 1..(Len(emitted) - 1) : emitted[i].Progress <= emitted[i + 1].Progress
    /\ \A i \in 1..Len(emitted) :
          emitted[i].Progress = 100 =>
              emitted[i].Status = "Ripping completed successfully!"

\* C2 as stated: a session in which Stop() was called while tracks were
\* still to be ripped or encoded ends with the Cancelled event.
C2_AsStated ==
    (ripPc = "done" /\ stopDuring) =>
        /\ emitted # <<>>
        /\ LastEmitted.Status = "Ripping cancelled"
        /\ LastEmitted.Error = "operation cancelled"

\* the places where RipCD stands before a send on the progress channel
SendPcs == {"init", "ripSend", "ripCancel", "encSend", "complete"}

\* C20: the progress channel never holds more than 10 events; a producer
\* that stands before a send while the channel is full stays there, nothing
\* sent, until an event is received; every event the session has sent is in
\* the channel or was received, none dropped, and the consumer's events
\* followed by the channel's are the session's events in emission order; the
\* consumer takes the oldest event of the channel.
C20_BoundedFifoChannel ==
    /\ [](Len(progressCh) <= ChanCap)
    /\ [](SelectSeq(received \o progressCh, LAMBDA e : e.sess = sessions) = emitted)
    /\ [][(Len(progressCh) = ChanCap /\ ripPc \in SendPcs /\ progressCh' = progressCh)
             => (ripPc' = ripPc /\ emitted' = emitted)]_vars
    /\ [][(sessions' = sessions /\ received' # received)
             => (/\ progressCh # <<>>
                 /\ received' = Append(received, Head(progressCh))
                 /\ progressCh' = Tail(progressCh))]_vars

\* C20's case: the channel holds 10 events of a 5-track session, the first
\* event was received, and RipCD stands before the send of the twelfth
C20_Witness ==
    /\ Len(progressCh) = ChanCap
    /\ ripPc = "complete"
    /\ Len(emitted) = 11
    /\ received = <<emitted[1]>>

\* the rip session when the goroutine running RipCD is scheduled fairly: a
\* step of it that stays possible is taken.  Nothing obliges a consumer to
\* receive, or anybody to call Stop or RipCD.
SpecRipFair ==
    /\ SpecRip
    /\ WF_vars(SendInitial /\ UNCHANGED notRipVars)
    /\ WF_vars(RipCheck /\ UNCHANGED notRipVars)
    /\ WF_vars(RipCancel /\ UNCHANGED notRipVars)
    /\ WF_vars(RipSend /\ UNCHANGED notRipVars)
    /\ WF_vars(EncCheck /\ UNCHANGED notRipVars)
    /\ WF_vars(EncSend /\ UNCHANGED notRipVars)
    /\ WF_vars(Complete /\ UNCHANGED notRipVars)

\* C25 as stated: a RipCD that has started returns, whether or not anybody
\* receives from the progress channel.
C25_AsStated == (ripPc \notin {"idle", "done"}) ~> (ripPc = "done")

\* C26 as stated: the first event received after a RipCD call is that
\* session's initial event, never an event of an earlier session.
C26_AsStated ==
    received # <<>> =>
        /\ received[1].sess = sessions
        /\ received[1].Status = "Initializing rip..."

\* the statuses of the events that end a session: completed, cancelled, failed
TerminalStatuses ==
    {"Ripping completed successfully!", "Ripping cancelled", "Ripping failed"}

\* C19 as stated: a session's terminal event is its last event (so there is
\* at most one, and no ripping, encoding or error event follows it), and a
\* session that has sent its initial event does not end without one.
C19_AsStated ==
    /\ \A i \in 1..Len(emitted) :
          emitted[i].Status \in TerminalStatuses => i = Len(emitted)
    /\ (ripPc = "done" /\ emitted # <<>>) => LastEmitted.Status \in TerminalStatuses

\* C19's first half alone: no event follows a session's terminal event
TerminalEventIsLast ==
    \A i \in 1..Len(emitted) :
        emitted[i].Status \in TerminalStatuses => i = Len(emitted)

\* C13 as stated: a session that has sent its initial event does not end
\* with RipCD returning an error.
C13_AsStated == (ripPc = "done" /\ emitted # <<>>) => ripRet = "nil"

\* the errors RipCD returns before it starts
FailFastErrors ==
    {"abcde tool not found in PATH and not configured", "failed to create output directory"}

\* C14: a RipCD call whose tool cannot be resolved or whose output directory
\* cannot be made returns an error at once, sends no event and starts no
\* subprocess; every other call goes on to the initial event, and the first
\* event of a session is the initial event with progress 0 and track 0.
C14_FailFastBeforeStart ==
    /\ [][\A n \in 0..MaxTracks, lookPath \in BOOLEAN, mkdirOk \in BOOLEAN :
            RipCDCall(n, lookPath, mkdirOk) =>
                IF (config.AbcdePath = <<>> /\ ~lookPath) \/ ~mkdirOk
                THEN /\ ripPc' = "done" /\ ripRet' \in FailFastErrors
                     /\ emitted' = <<>> /\ progressCh' = progressCh
                     /\ proc'.state = "none"
                ELSE ripPc' = "init" /\ ripRet' = "none"]_vars
    /\ [](emitted # <<>> =>
            /\ emitted[1].Status = "Initializing rip..."
            /\ emitted[1].Progress = 0 /\ emitted[1].CurrentTrack = 0)

\* the first call has failed on the output directory with the tool resolved
C14_Witness ==
    /\ sessions = 1 /\ ripPc = "done"
    /\ ripRet = "failed to create output directory"
    /\ config.AbcdePath # <<>>
    /\ emitted = <<>> /\ progressCh = <<>>

\* C15 as stated: a RipCD call that follows a session cancelled by Stop()
\* starts in the non-cancelled state.
C15_AsStated ==
    [][(ripPc = "done" /\ ripRet = "operation cancelled" /\ ripPc' = "init")
          => ~ctxDone']_vars

-----------------------------------------------------------------------------
(* RipCD with the ripping subprocess (part_003; cd.go keeps the same text  *)
(* after its call of simulateRipping): the tool runs as a process of its   *)
(* own and writes lines on two pipes, monitorAbcdeProgress starts a        *)
(* scanner goroutine per pipe, a third goroutine waits for the process,    *)
(* and RipCD selects between cancellation and the process's end.           *)

S_GrabbingTrack ==
    <<"G", "r", "a", "b", "b", "i", "n", "g", " ", "t", "r", "a", "c", "k", " ">>
S_EncodingTrack ==
    <<"E", "n", "c", "o", "d", "i", "n", "g", " ", "t", "r", "a", "c", "k", " ">>

\* strings.ToLower on the letters A-Z
ToLower(str) ==
    LET upper == <<"A", "B", "C", "D", "E", "F", "G", "H", "I", "J", "K", "L", "M",
                   "N", "O", "P", "Q", "R", "S", "T", "U", "V", "W", "X", "Y", "Z">>
        lower == <<"a", "b", "c", "d", "e", "f", "g", "h", "i", "j", "k", "l", "m",
                   "n", "o", "p", "q", "r", "s", "t", "u", "v", "w", "x", "y", "z">>
        Low(c) == IF \E j \in 1..26 : upper[j] = c
                  THEN lower[CHOOSE j \in 1..26 : upper[j] = c] ELSE c
    IN [i \in 1..Len(str) |-> Low(str[i])]

\* FindStringSubmatch of the pattern `lit(\d+)`: the digits captured by the
\* leftmost match, or <<>> when the line has no match
FindStringSubmatch(lit, line) ==
    LET n == Len(lit)
        starts == {i \in 1..(Len(line) - n) :
                      SubSeq(line, i, i + n - 1) = lit /\ IsDigit(line[i + n])}
    IN IF starts = {} THEN <<>>
       ELSE LET i == CHOOSE a \in starts : \A b \in starts : a <= b
                d == i + n
                e == CHOOSE z \in d..Len(line) :
                        /\ \A x \in d..z : IsDigit(line[x])
                        /\ z = Len(line) \/ ~IsDigit(line[z + 1])
            IN SubSeq(line, d, e)

\* the track a line names for a pattern: matched, and the number read by Atoi
LineTrack(lit, line) ==
    LET digits == FindStringSubmatch(lit, line)
    IN IF digits = <<>> THEN [ok |-> FALSE, val |-> 0] ELSE Atoi(digits)

\* the events of monitorAbcdeProgress and of RipCD's select
GrabbingEvent(track) ==
    ProgressInfo(track, ripN, "Ripping track %d of %d...", (track * 50) \div ripN, "nil")
EncodedEvent(track) ==
    ProgressInfo(track, ripN, "Encoding track %d of %d...", 50 + ((track * 50) \div ripN),
                 "nil")
StderrEvent == ProgressInfo(0, 0, "Error: %s", 0, "abcde error: %s")
FailedEvent == ProgressInfo(0, 0, "Ripping failed", 0, "exit status")

\* the goroutines run until one of them panics
Alive == scan.outPc # "panic"

\* the lines the tool may write on stdout, with what they are meant to be
StdoutLines ==
    {[kind |-> "grab", k |-> 3, text |-> S_GrabbingTrack \o <<"3">>],
     [kind |-> "encode", k |-> 3, text |-> S_EncodingTrack \o <<"3">>],
     [kind |-> "grab", k |-> 12, text |-> S_GrabbingTrack \o <<"1", "2">>],
     [kind |-> "other", k |-> 0,
      text |-> <<"g", "r", "a", "b", "b", "i", "n", "g", " ", "t", "r", "a", "c", "k",
                 " ", "3">>]}
\* and on stderr
StderrLines ==
    {<<"[", "E", "R", "R", "O", "R", "]", " ", "n", "o", " ", "d", "i", "s", "c">>,
     <<"w", "a", "r", "n", "i", "n", "g">>}

\* what a run of the tool does: its lines and how it exits
ToolScripts ==
    {[out |-> o, err |-> e, exit |-> x] :
        o \in SeqsUpTo(StdoutLines, MaxToolLines), e \in SeqsUpTo(StderrLines, 1),
        x \in {"ok", "fail"}}

\* the track counts of the discs ripped with the tool
AbcdeTrackCounts == {0, 10}

ripHist == <<ripTrack, received, stopDuring>>

\* RipCD up to the initial event: the tool must be configured and the output
\* directory is made
AbcdeRipCD ==
    \E n \in AbcdeTrackCounts, mkdirOk \in BOOLEAN :
        /\ ripPc = "idle"
        /\ sessions' = sessions + 1
        /\ ripN' = n
        /\ IF config.AbcdePath = <<>>
           THEN ripRet' = "abcde tool not configured" /\ ripPc' = "done"
           ELSE IF mkdirOk THEN ripRet' = "none" /\ ripPc' = "init"
           ELSE ripRet' = "failed to create output directory" /\ ripPc' = "done"
        /\ UNCHANGED <<config, ctxDone, progressCh, emitted, ripHist, procVars>>

\* the initial event
AbcdeInitial ==
    /\ ripPc = "init"
    /\ Send(InitialEvent)
    /\ ripPc' = "launch"
    /\ UNCHANGED <<config, ripN, ctxDone, ripRet, sessions, ripHist, procVars>>

\* prepareAbcdeCommand: the arguments of the tool under the configuration
prepareAbcdeCommand(cfg) ==
    <<[opt |-> "-o", val |-> cfg.OutputFormat],
      [opt |-> "-d", val |-> cfg.CDDrive],
      [opt |-> "-c", val |-> "/dev/null"],
      [opt |-> IF cfg.CDDBMethod # "none" THEN "-D" ELSE "-L", val |-> ""]>>
        \o (IF cfg.AutoEject THEN <<[opt |-> "-e", val |-> ""]>> ELSE <<>>)
        \o (IF cfg.VerboseLogging THEN <<[opt |-> "-v", val |-> ""]>> ELSE <<>>)

\* the pipes, cmd.Start, and the two go statements
AbcdeLaunch ==
    \E script \in ToolScripts, startOk \in BOOLEAN :
        /\ ripPc = "launch"
        /\ IF startOk
           THEN /\ proc' = [proc EXCEPT !.state = "running", !.script = script,
                                        !.out = script.out, !.err = script.err,
                                        !.waiter = "waiting"]
                /\ scan' = [scan EXCEPT !.monPc = "spawn"]
                /\ ripPc' = "select" /\ UNCHANGED ripRet
           ELSE /\ ripRet' = "failed to start abcde" /\ ripPc' = "done"
                /\ UNCHANGED <<proc, scan>>
        /\ UNCHANGED <<config, ripN, ctxDone, progressCh, emitted, sessions, ripHist,
                       pipes>>

\* the tool writes its next stdout line (wrote, seen: history of the lines
\* that went into the pipe and of those the scanner took out); with the read
\* end closed the write fails, and the tool either dies of it or goes on
ToolWriteStdout ==
    \E dies \in BOOLEAN :
        /\ proc.state = "running" /\ proc.out # <<>>
        /\ IF ~pipes.closed
           THEN /\ ~dies
                /\ pipes' = [pipes EXCEPT !.out = Append(@, Head(proc.out))]
                /\ proc' = [proc EXCEPT !.out = Tail(@), !.wrote = Append(@, Head(proc.out))]
           ELSE /\ proc' = IF dies THEN [proc EXCEPT !.state = "exited", !.status = "fail"]
                           ELSE [proc EXCEPT !.out = Tail(@)]
                /\ UNCHANGED pipes
        /\ UNCHANGED <<config, ripVars, scan>>

\* the same for stderr
ToolWriteStderr ==
    \E dies \in BOOLEAN :
        /\ proc.state = "running" /\ proc.err # <<>>
        /\ IF ~pipes.closed
           THEN /\ ~dies
                /\ pipes' = [pipes EXCEPT !.err = Append(@, Head(proc.err))]
                /\ proc' = [proc EXCEPT !.err = Tail(@)]
           ELSE /\ proc' = IF dies THEN [proc EXCEPT !.state = "exited", !.status = "fail"]
                           ELSE [proc EXCEPT !.err = Tail(@)]
                /\ UNCHANGED pipes
        /\ UNCHANGED <<config, ripVars, scan>>

\* the tool has written everything and exits
ToolExit ==
    /\ proc.state = "running" /\ proc.out = <<>> /\ proc.err = <<>>
    /\ proc' = [proc EXCEPT !.state = "exited", !.status = proc.script.exit]
    /\ UNCHANGED <<config, ripVars, pipes, scan>>

\* monitorAbcdeProgress starts the two scanner goroutines
MonitorSpawn ==
    /\ Alive /\ scan.monPc = "spawn"
    /\ scan' = [scan EXCEPT !.monPc = "spawned", !.outPc = "scan", !.errPc = "scan"]
    /\ UNCHANGED <<config, ripVars, proc, pipes>>

\* and returns, which runs the deferred stderr.Close() and stdout.Close()
MonitorReturn ==
    /\ Alive /\ scan.monPc = "spawned"
    /\ scan' = [scan EXCEPT !.monPc = "returned"]
    /\ pipes' = [pipes EXCEPT !.closed = TRUE]
    /\ UNCHANGED <<config, ripVars, proc>>

\* cmd.Wait returns after the process has exited: it closes the pipes, and
\* the result goes into the channel done
WaitReturn ==
    /\ Alive /\ proc.waiter = "waiting" /\ proc.state = "exited"
    /\ pipes' = [pipes EXCEPT !.closed = TRUE]
    /\ proc' = [proc EXCEPT !.waiter = "sent",
                            !.done = IF proc.status = "ok" THEN "nil" ELSE "err"]
    /\ UNCHANGED <<config, ripVars, scan>>

\* stdoutScanner.Scan(): the next line; the loop ends at a closed pipe and
\* at the end of the tool's output
ScanStdout ==
    /\ Alive /\ scan.outPc = "scan"
    /\ IF pipes.closed THEN scan' = [scan EXCEPT !.outPc = "done"] /\ UNCHANGED pipes
       ELSE IF pipes.out # <<>>
       THEN /\ scan' = [scan EXCEPT !.outPc = "grab", !.outLine = Head(pipes.out).text,
                                    !.seen = Append(@, Head(pipes.out))]
            /\ pipes' = [pipes EXCEPT !.out = Tail(@)]
       ELSE /\ proc.state = "exited"
            /\ scan' = [scan EXCEPT !.outPc = "done"] /\ UNCHANGED pipes
    /\ UNCHANGED <<config, ripVars, proc>>

\* the line against trackPattern
HandleGrab ==
    LET t == LineTrack(S_GrabbingTrack, scan.outLine)
    IN /\ Alive /\ scan.outPc = "grab"
       /\ IF ~t.ok THEN scan' = [scan EXCEPT !.outPc = "encode"]
                        /\ UNCHANGED <<progressCh, emitted>>
          ELSE IF ripN = 0
          THEN scan' = [scan EXCEPT !.outPc = "panic", !.currentTrack = t.val]
               /\ UNCHANGED <<progressCh, emitted>>
          ELSE /\ Send(GrabbingEvent(t.val))
               /\ scan' = [scan EXCEPT !.outPc = "encode", !.currentTrack = t.val]
       /\ UNCHANGED <<config, ripPc, ripN, ctxDone, ripRet, sessions, ripHist, proc,
                      pipes>>

\* the line against encodePattern
HandleEncode ==
    LET t == LineTrack(S_EncodingTrack, scan.outLine)
    IN /\ Alive /\ scan.outPc = "encode"
       /\ IF ~t.ok THEN scan' = [scan EXCEPT !.outPc = "scan"]
                        /\ UNCHANGED <<progressCh, emitted>>
          ELSE IF ripN = 0
          THEN scan' = [scan EXCEPT !.outPc = "panic"]
               /\ UNCHANGED <<progressCh, emitted>>
          ELSE /\ Send(EncodedEvent(t.val))
               /\ scan' = [scan EXCEPT !.outPc = "scan"]
       /\ UNCHANGED <<config, ripPc, ripN, ctxDone, ripRet, sessions, ripHist, proc,
                      pipes>>

\* stderrScanner.Scan()
ScanStderr ==
    /\ Alive /\ scan.errPc = "scan"
    /\ IF pipes.closed THEN scan' = [scan EXCEPT !.errPc = "done"] /\ UNCHANGED pipes
       ELSE IF pipes.err # <<>>
       THEN /\ scan' = [scan EXCEPT !.errPc = "line", !.errLine = Head(pipes.err)]
            /\ pipes' = [pipes EXCEPT !.err = Tail(@)]
       ELSE /\ proc.state = "exited"
            /\ scan' = [scan EXCEPT !.errPc = "done"] /\ UNCHANGED pipes
    /\ UNCHANGED <<config, ripVars, proc>>

\* a stderr line that contains "error" in any case is sent as an error event
HandleStderr ==
    /\ Alive /\ scan.errPc = "line"
    /\ IF Contains(ToLower(scan.errLine), <<"e", "r", "r", "o", "r">>) THEN Send(StderrEvent)
       ELSE UNCHANGED <<progressCh, emitted>>
    /\ scan' = [scan EXCEPT !.errPc = "scan"]
    /\ UNCHANGED <<config, ripPc, ripN, ctxDone, ripRet, sessions, ripHist, proc, pipes>>

\* select, case <-r.ctx.Done(): the process is killed
SelectCancel ==
    /\ Alive /\ ripPc = "select" /\ ctxDone
    /\ proc' = IF proc.state = "running"
               THEN [proc EXCEPT !.state = "exited", !.status = "killed"] ELSE proc
    /\ ripPc' = "cancelSend"
    /\ UNCHANGED <<config, ripN, ctxDone, progressCh, emitted, ripRet, sessions, ripHist,
                   pipes, scan>>

\* the Cancelled event, then the return
AbcdeCancelSend ==
    /\ Alive /\ ripPc = "cancelSend"
    /\ Send(CancelledEvent)
    /\ ripRet' = "operation cancelled" /\ ripPc' = "done"
    /\ UNCHANGED <<config, ripN, ctxDone, sessions, ripHist, procVars>>

\* select, case err := <-done
SelectDone ==
    /\ Alive /\ ripPc = "select" /\ proc.done # "none"
    /\ ripPc' = IF proc.done = "err" THEN "failSend" ELSE "complete"
    /\ proc' = [proc EXCEPT !.done = "none"]
    /\ UNCHANGED <<config, ripN, ctxDone, progressCh, emitted, ripRet, sessions, ripHist,
                   pipes, scan>>

\* the Failed event, then the return
AbcdeFailSend ==
    /\ Alive /\ ripPc = "failSend"
    /\ Send(FailedEvent)
    /\ ripRet' = "abcde failed" /\ ripPc' = "done"
    /\ UNCHANGED <<config, ripN, ctxDone, sessions, ripHist, procVars>>

\* the completion event, then return nil
AbcdeComplete == Alive /\ Complete /\ UNCHANGED procVars

\* Stop() from another goroutine
AbcdeStop == Alive /\ ~ctxDone /\ Stop /\ UNCHANGED procVars

InitAbcde ==
    /\ config \in RipConfigs
    /\ IdentIdle /\ DrivesIdle /\ RipIdle /\ ProcIdle /\ UIIdle /\ ScriptIdle

notAbcdeVars == <<identVars, drivesVars, uiVars, scriptVars>>

NextAbcde ==
    \/ AbcdeRipCD /\ UNCHANGED notAbcdeVars
    \/ AbcdeInitial /\ UNCHANGED notAbcdeVars
    \/ AbcdeLaunch /\ UNCHANGED notAbcdeVars
    \/ ToolWriteStdout /\ UNCHANGED notAbcdeVars
    \/ ToolWriteStderr /\ UNCHANGED notAbcdeVars
    \/ ToolExit /\ UNCHANGED notAbcdeVars
    \/ MonitorSpawn /\ UNCHANGED notAbcdeVars
    \/ MonitorReturn /\ UNCHANGED notAbcdeVars
    \/ WaitReturn /\ UNCHANGED notAbcdeVars
    \/ ScanStdout /\ UNCHANGED notAbcdeVars
    \/ HandleGrab /\ UNCHANGED notAbcdeVars
    \/ HandleEncode /\ UNCHANGED notAbcdeVars
    \/ ScanStderr /\ UNCHANGED notAbcdeVars
    \/ HandleStderr /\ UNCHANGED notAbcdeVars
    \/ SelectCancel /\ UNCHANGED notAbcdeVars
    \/ AbcdeCancelSend /\ UNCHANGED notAbcdeVars
    \/ SelectDone /\ UNCHANGED notAbcdeVars
    \/ AbcdeFailSend /\ UNCHANGED notAbcdeVars
    \/ AbcdeComplete /\ UNCHANGED notAbcdeVars
    \/ AbcdeStop /\ UNCHANGED notAbcdeVars

SpecAbcde == InitAbcde /\ [][NextAbcde]_vars

\* the (track, percentage) of the events the stdout scanner has sent, in order
ScannerEvents ==
    LET FromScanner(e) ==
            e.Status \in {"Ripping track %d of %d...", "Encoding track %d of %d..."}
        evs == SelectSeq(emitted, FromScanner)
    IN [i \in 1..Len(evs) |-> [track |-> evs[i].CurrentTrack, pct |-> evs[i].Progress]]

RECURSIVE EventsOfLines(_)
\* the (track, percentage) the stated rule gives for the tool's stdout lines
EventsOfLines(lines) ==
    IF lines = <<>> THEN <<>>
    ELSE LET l == Head(lines)
             ev == IF l.kind = "grab" THEN <<[track |-> l.k, pct |-> (l.k * 50) \div ripN]>>
                   ELSE IF l.kind = "encode"
                   THEN <<[track |-> l.k, pct |-> 50 + ((l.k * 50) \div ripN)]>>
                   ELSE <<>>
         IN ev \o EventsOfLines(Tail(lines))

\* every line the stdout scanner has taken out of the pipe and handled gave
\* the events of the stated rule (n >= 1)
LinesReadGiveEvents ==
    (scan.outPc \in {"scan", "done"} /\ ripN >= 1)
        => ScannerEvents = EventsOfLines(scan.seen)

\* C6 as stated: in a session with n >= 1 tracks that has completed, with the
\* stdout scanner finished, the scanner has sent exactly one event per
\* 'Grabbing track k' line (floor(k*50/n)) and per 'Encoding track k' line
\* (50 + floor(k*50/n)) the tool wrote on stdout, in order, and none for
\* other lines.
C6_AsStated ==
    (ripPc = "done" /\ ripRet = "nil" /\ scan.outPc = "done" /\ ripN >= 1)
        => ScannerEvents = EventsOfLines(proc.wrote)

-----------------------------------------------------------------------------
(* The UI of main.go: Update and the key handlers of the welcome screen,   *)
(* the CD ripping screen, the settings menu and the drives screen.  The    *)
(* field editors of the other four settings screens do not touch the rip   *)
(* state; here they are screens one enters and leaves.  Update's case      *)
(* rippingProgressMsg is left out: only startRippingCmd and                *)
(* listenForProgressCmd make that message, and nothing calls them.         *)

Keys == {"q", "ctrl+c", "esc", "enter", " ", "r", "s", "up", "down", "k", "j", "x"}

\* the screens behind the five entries of the settings menu
settingsScreens ==
    <<"DrivesSettingsScreen", "PathsSettingsScreen", "CDRippingSettingsScreen",
      "ToolsSettingsScreen", "UISettingsScreen">>

\* the hosts drives.DetectDrives may find: no drive, /dev/sr0 alone, and
\* /dev/sr0 with /dev/sr1 listed by the registry
UIHosts ==
    LET h0 == [files |-> {}, dirs |-> {}, sysBlockOk |-> TRUE, sysBlock |-> {},
               modelFile |-> NoFile, vendorFile |-> NoFile, roFile |-> NoFile,
               infoFile |-> NoFile]
    IN {h0, [h0 EXCEPT !.files = {S_DevSr0}],
        [h0 EXCEPT !.files = {S_DevSr0}, !.sysBlock = {<<"s", "r", "1">>}]}

\* updateWelcome
updateWelcome ==
    \E key \in Keys :
        /\ ~ui.quit /\ ui.currentScreen = "WelcomeScreen"
        /\ ui' = CASE key \in {"q", "ctrl+c"} -> [ui EXCEPT !.quit = TRUE]
                   [] key = "r" -> [ui EXCEPT !.currentScreen = "CDRippingScreen",
                                              !.selectedItem = 0]
                   [] key = "s" -> [ui EXCEPT !.currentScreen = "SettingsMenuScreen",
                                              !.selectedItem = 0]
                   [] OTHER -> ui
        /\ UNCHANGED <<config, uiCmds, uiRips>>

\* updateCDRipping while m.isRipping: only q and esc do something
updateCDRippingBusy ==
    \E key \in Keys :
        /\ ~ui.quit /\ ui.currentScreen = "CDRippingScreen" /\ ui.isRipping
        /\ ui' = IF key \in {"q", "esc"}
                 THEN [ui EXCEPT !.isRipping = FALSE, !.rippingProgress = 0,
                                 !.rippingStatus = "", !.currentScreen = "WelcomeScreen"]
                 ELSE ui
        /\ UNCHANGED <<config, uiCmds, uiRips>>

\* (an updateCDRipping that starts the rip without looking at m.cdInfo)
updateCDRippingStartAnyCD ==
    \E key \in {"enter", " "} :
        /\ ~ui.quit /\ ui.currentScreen = "CDRippingScreen" /\ ~ui.isRipping
        /\ IF config.CDDrive # <<>>
           THEN /\ Len(uiRips) < MaxRips /\ uiCmds.tick < MaxInFlight
                /\ ui' = [ui EXCEPT !.isRipping = TRUE,
                                    !.rippingStatus = "Ripping in progress...",
                                    !.spinnerFrame = 0]
                /\ uiRips' = Append(uiRips, [st |-> "mkdir", args |-> <<>>])
                /\ uiCmds' = [uiCmds EXCEPT !.tick = @ + 1]
           ELSE /\ ui' = [ui EXCEPT !.rippingStatus =
                            "Cannot start: No drive configured or CD not detected"]
                /\ UNCHANGED <<uiCmds, uiRips>>
        /\ UNCHANGED config

\* updateCDRipping, enter or space: the rip goroutine is started when a drive
\* is configured and a disc was detected
updateCDRippingStart ==
    \E key \in {"enter", " "} :
        /\ ~ui.quit /\ ui.currentScreen = "CDRippingScreen" /\ ~ui.isRipping
        /\ IF config.CDDrive # <<>> /\ ui.cdInfo # "nil"
           THEN /\ Len(uiRips) < MaxRips /\ uiCmds.tick < MaxInFlight
                /\ ui' = [ui EXCEPT !.isRipping = TRUE,
                                    !.rippingStatus = "Ripping in progress...",
                                    !.spinnerFrame = 0]
                /\ uiRips' = Append(uiRips, [st |-> "mkdir", args |-> <<>>])
                /\ uiCmds' = [uiCmds EXCEPT !.tick = @ + 1]
           ELSE /\ ui' = [ui EXCEPT !.rippingStatus =
                            "Cannot start: No drive configured or CD not detected"]
                /\ UNCHANGED <<uiCmds, uiRips>>
        /\ UNCHANGED config

\* updateCDRipping, the other keys: q and esc leave, r detects the disc
updateCDRippingNav ==
    \E key \in Keys \ {"enter", " "} :
        /\ ~ui.quit /\ ui.currentScreen = "CDRippingScreen" /\ ~ui.isRipping
        /\ CASE key \in {"q", "esc"} ->
                  /\ ui' = [ui EXCEPT !.currentScreen = "WelcomeScreen"]
                  /\ UNCHANGED uiCmds
             [] key = "r" ->
                  /\ uiCmds.detect < MaxInFlight
                  /\ ui' = [ui EXCEPT !.rippingStatus = "Detecting CD...",
                                      !.cdInfo = "nil"]
                  /\ uiCmds' = [uiCmds EXCEPT !.detect = @ + 1]
             [] OTHER -> UNCHANGED <<ui, uiCmds>>
        /\ UNCHANGED <<config, uiRips>>

\* updateSettingsMenu
updateSettingsMenu ==
    \E key \in Keys :
        /\ ~ui.quit /\ ui.currentScreen = "SettingsMenuScreen"
        /\ ui' = CASE key \in {"q", "esc"} -> [ui EXCEPT !.currentScreen = "WelcomeScreen"]
                   [] key \in {"up", "k"} ->
                        [ui EXCEPT !.selectedItem = IF @ > 0 THEN @ - 1 ELSE @]
                   [] key \in {"down", "j"} ->
                        [ui EXCEPT !.selectedItem =
                            IF @ < Len(settingsScreens) - 1 THEN @ + 1 ELSE @]
                   [] key = "enter" ->
                        [ui EXCEPT !.currentScreen =
                                      IF ui.selectedItem + 1 \in 1..Len(settingsScreens)
                                      THEN settingsScreens[ui.selectedItem + 1] ELSE @,
                                   !.selectedItem = 0]
                   [] OTHER -> ui
        /\ UNCHANGED <<config, uiCmds, uiRips>>

\* updateDrivesSettings; r runs drives.DetectDrives on the host as it is then
updateDrivesSettings ==
    \E key \in Keys, h \in UIHosts :
        LET n == Len(ui.availableDrives)
            found == DetectDrives(h).drives
        IN /\ ~ui.quit /\ ui.currentScreen = "DrivesSettingsScreen"
           /\ key # "r" => h = CHOOSE x \in UIHosts : TRUE
           /\ CASE key \in {"q", "esc"} ->
                     /\ ui' = [ui EXCEPT !.currentScreen = "SettingsMenuScreen"]
                     /\ UNCHANGED config
                [] key \in {"up", "k"} ->
                     /\ ui' = [ui EXCEPT !.selectedItem = IF @ > 0 THEN @ - 1 ELSE @]
                     /\ UNCHANGED config
                [] key \in {"down", "j"} ->
                     /\ ui' = [ui EXCEPT !.selectedItem = IF @ < n - 1 THEN @ + 1 ELSE @]
                     /\ UNCHANGED config
                [] key \in {"enter", " "} ->
                     IF n > 0 /\ ui.selectedItem < n
                     THEN /\ config' = [config EXCEPT !.CDDrive =
                                          ui.availableDrives[ui.selectedItem + 1].Device]
                          /\ ui' = [ui EXCEPT !.currentScreen = "SettingsMenuScreen",
                                              !.saved = <<config'>>]
                     ELSE UNCHANGED <<config, ui>>
                [] key = "r" ->
                     /\ ui' = [ui EXCEPT !.availableDrives = found,
                                         !.selectedItem = IF @ >= Len(found) THEN 0 ELSE @]
                     /\ UNCHANGED config
                [] OTHER -> UNCHANGED <<config, ui>>
           /\ UNCHANGED <<uiCmds, uiRips>>

\* the other settings screens, outside an edit: q and esc go back to the menu
leaveSettingsScreen ==
    \E key \in {"q", "esc"} :
        /\ ~ui.quit
        /\ ui.currentScreen \in {"PathsSettingsScreen", "CDRippingSettingsScreen",
                                 "ToolsSettingsScreen", "UISettingsScreen"}
        /\ ui' = [ui EXCEPT !.currentScreen = "SettingsMenuScreen"]
        /\ UNCHANGED <<config, uiCmds, uiRips>>

\* Update, case spinnerTickMsg; the frame counter, of which the view shows
\* the remainder by the number of frames, is kept modulo MaxSpinnerFrame + 1
spinnerTick ==
    /\ ~ui.quit /\ uiCmds.tick > 0
    /\ IF ui.isRipping
       THEN /\ ui' = [ui EXCEPT !.spinnerFrame = (@ + 1) % (MaxSpinnerFrame + 1)]
            /\ UNCHANGED uiCmds
       ELSE /\ uiCmds' = [uiCmds EXCEPT !.tick = @ - 1]
            /\ UNCHANGED ui
    /\ UNCHANGED <<config, uiRips>>

\* Update, case rippingProgressMsg, on the event a listenForProgressCmd took
\* from the ripper's channel.  Only this case starts a listenForProgressCmd,
\* and startRippingCmd, the other source of the message, is called nowhere:
\* no handler ever raises uiCmds.listen, so this is not a step of NextUI.
rippingProgress ==
    /\ ~ui.quit /\ uiCmds.listen > 0 /\ progressCh # <<>>
    /\ LET progress == Head(progressCh)
           shown == [ui EXCEPT !.rippingProgress = progress.Progress,
                               !.rippingStatus = progress.Status]
       IN /\ progressCh' = Tail(progressCh)
          /\ IF progress.Error # "nil"
             THEN /\ ui' = [shown EXCEPT !.isRipping = FALSE, !.rippingStatus = "Error: %v"]
                  /\ uiCmds' = [uiCmds EXCEPT !.listen = @ - 1]
             ELSE IF progress.Progress >= 100
             THEN /\ ui' = [shown EXCEPT !.isRipping = FALSE]
                  /\ uiCmds' = [uiCmds EXCEPT !.listen = @ - 1]
             ELSE /\ ui' = shown
                  /\ uiCmds' = IF ui.isRipping THEN uiCmds
                               ELSE [uiCmds EXCEPT !.listen = @ - 1]
    /\ UNCHANGED <<config, uiRips>>

\* detectCDCmd has run DetectCD; Update, case cdDetectedMsg
cdDetected ==
    \E failed \in BOOLEAN :
        /\ ~ui.quit /\ uiCmds.detect > 0
        /\ uiCmds' = [uiCmds EXCEPT !.detect = @ - 1]
        /\ ui' = IF failed
                 THEN [ui EXCEPT !.rippingStatus = "Error detecting CD: %v",
                                 !.cdInfo = "nil"]
                 ELSE [ui EXCEPT !.cdInfo = "cd", !.rippingStatus = ""]
        /\ UNCHANGED <<config, uiRips>>

\* a rip goroutine: os.MkdirAll, then the tool is started (cmd.Run) with the
\* arguments -d <drive> -o <format> -a default (args: history of the launch)
ripGoStart ==
    \E i \in 1..Len(uiRips), mkdirOk \in BOOLEAN :
        /\ uiRips[i].st = "mkdir"
        /\ uiRips' = [uiRips EXCEPT ![i] =
                         IF mkdirOk
                         THEN [st |-> "running",
                               args |-> <<[opt |-> "-d", val |-> config.CDDrive],
                                          [opt |-> "-o", val |-> config.OutputFormat],
                                          [opt |-> "-a", val |-> "default"]>>]
                         ELSE [@ EXCEPT !.st = "returned"]]
        /\ UNCHANGED <<config, ui, uiCmds>>

\* the tool exits and cmd.Run returns: the goroutine ends, telling nobody
ripGoExit ==
    \E i \in 1..Len(uiRips) :
        /\ uiRips[i].st = "running"
        /\ uiRips' = [uiRips EXCEPT ![i].st = "returned"]
        /\ UNCHANGED <<config, ui, uiCmds>>

UIConfigs == {[DefaultConfig EXCEPT !.CDDrive = d] : d \in {<<>>, S_DevSr0}}

InitUI ==
    /\ config \in UIConfigs
    /\ IdentIdle /\ DrivesIdle /\ RipIdle /\ ProcIdle /\ ScriptIdle
    /\ \E h \in UIHosts : ui = InitialModel(DetectDrives(h).drives)
    /\ uiCmds = [detect |-> 0, tick |-> 0, listen |-> 0]
    /\ uiRips = <<>>

notUIVars == <<identVars, drivesVars, ripVars, procVars, scriptVars>>

NextUI ==
    \/ updateWelcome /\ UNCHANGED notUIVars
    \/ updateCDRippingBusy /\ UNCHANGED notUIVars
    \/ updateCDRippingStart /\ UNCHANGED notUIVars
    \/ updateCDRippingNav /\ UNCHANGED notUIVars
    \/ updateSettingsMenu /\ UNCHANGED notUIVars
    \/ updateDrivesSettings /\ UNCHANGED notUIVars
    \/ leaveSettingsScreen /\ UNCHANGED notUIVars
    \/ spinnerTick /\ UNCHANGED notUIVars
    \/ cdDetected /\ UNCHANGED notUIVars
    \/ ripGoStart /\ UNCHANGED notUIVars
    \/ ripGoExit /\ UNCHANGED notUIVars

SpecUI == InitUI /\ [][NextUI]_vars

\* C10 as stated, for the ripping subprocesses: at most one of the tools the
\* UI has launched is running at any time.
C10_AsStated == Cardinality({i \in 1..Len(uiRips) : uiRips[i].st = "running"}) <= 1

-----------------------------------------------------------------------------
(* The video-disc script: main and the functions it calls.  A run of the    *)
(* script stands at a prompt (sh.pc) until the user's line is read; the     *)
(* tools' answers and the user's lines are drawn from the sets below.      *)
(* sh.asked holds the prompts that were answered, sh.mkv the arguments of  *)
(* `makemkvcon mkv` once it was invoked.                                   *)

\* the largest title number the disc scan reports
MaxTitleNum == 2

RECURSIVE StripBlanks(_)
\* `read -r` into one variable: the line without leading and trailing blanks
StripBlanks(line) ==
    IF line = <<>> THEN line
    ELSE IF Head(line) \in {" ", "\t"} THEN StripBlanks(Tail(line))
    ELSE IF line[Len(line)] \in {" ", "\t"} THEN StripBlanks(SubSeq(line, 1, Len(line) - 1))
    ELSE line

\* [[ $answer =~ ^[Yy] ]]
StartsWithY(answer) == answer # <<>> /\ answer[1] \in {"y", "Y"}

\* echo "$a|$b" read back with IFS='|' read -r a b: the text before the
\* first bar, and all the text after it
SplitAtBar(s) ==
    IF \E i \in 1..Len(s) : s[i] = "|"
    THEN LET i == CHOOSE k \in 1..Len(s) : s[k] = "|" /\ \A j \in 1..(k - 1) : s[j] # "|"
         IN <<SubSeq(s, 1, i - 1), SubSeq(s, i + 1, Len(s))>>
    ELSE <<s, <<>>>>

\* a variant of InRange without the upper limit
InRangeNoUpper(input, max_title) == DecVal(input) >= 0

\* [ "$input" -ge 0 ] && [ "$input" -le "$max_title" ], on a string of digits
InRange(input, max_title) == DecVal(input) >= 0 /\ DecVal(input) <= max_title

\* the case statement of get_title_selection on the line read
SelectionCase(input, max_title) ==
    IF input \in {<<"q">>, <<"Q">>} THEN "quit"
    ELSE IF input = <<>> \/ \E i \in 1..Len(input) : ~IsDigit(input[i]) THEN "invalid"
    ELSE IF InRange(input, max_title) THEN "selected"
    ELSE "out of range"

\* clean_filename: blanks become underscores, then every character that is
\* not a letter, a digit, '_', '.' or '-' is deleted
clean_filename(name) ==
    LET keep == {"a", "b", "c", "d", "e", "f", "g", "h", "i", "j", "k", "l", "m",
                 "n", "o", "p", "q", "r", "s", "t", "u", "v", "w", "x", "y", "z",
                 "A", "B", "C", "D", "E", "F", "G", "H", "I", "J", "K", "L", "M",
                 "N", "O", "P", "Q", "R", "S", "T", "U", "V", "W", "X", "Y", "Z",
                 "_", ".", "-"}
        under == [i \in 1..Len(name) |-> IF name[i] = " " THEN "_" ELSE name[i]]
    IN SelectSeq(under, LAMBDA c : c \in keep \/ IsDigit(c))

\* the script ends with the given exit status
ScriptExit(status) == [sh EXCEPT !.pc = "exit", !.exit = status]

\* check_requirements: the device is a block device and makemkvcon is installed
check_requirements ==
    /\ sh.pc = "start"
    /\ \E device, tool \in BOOLEAN :
          sh' = IF device /\ tool THEN [sh EXCEPT !.pc = "wait_for_disc"]
                ELSE ScriptExit("1")

\* wait_for_disc: the device becomes readable within 30 attempts, or not
wait_for_disc ==
    /\ sh.pc = "wait_for_disc"
    /\ \E ready \in BOOLEAN :
          sh' = IF ready THEN [sh EXCEPT !.pc = "get_disc_info"] ELSE ScriptExit("1")

\* the names the disc scan prints, and the labels blkid prints (<<>>: none)
DiscNames == {<<>>, <<"M", "y", " ", "F", "i", "l", "m">>, <<"A", "|", "B">>}
DiscLabels == {<<>>, <<"D", "I", "S", "C", "1">>}

\* get_disc_info and main's reading of its result: the scan fails, or it
\* lists the titles `titles`, a name and a label
get_disc_info ==
    /\ sh.pc = "get_disc_info"
    /\ \E scanOk \in BOOLEAN, titles \in SUBSET (0..MaxTitleNum),
          name \in DiscNames, label \in DiscLabels :
          LET disc_title == IF name # <<>> THEN name
                            ELSE IF label # <<>> THEN label
                            ELSE <<"U", "n", "k", "n", "o", "w", "n">>
              max_title == CHOOSE t \in titles \cup {0} : \A u \in titles : u <= t
              disc_result == SplitAtBar(Itoa(max_title) \o <<"|">> \o disc_title)
          IN sh' = IF ~scanOk \/ titles = {} THEN ScriptExit("1")
                   ELSE [sh EXCEPT !.pc = "select", !.max_title = DecVal(disc_result[1]),
                                   !.disc_title = disc_result[2]]

\* the lines the user may type at the title prompt
TitleLines ==
    {Itoa(t) : t \in 0..(MaxTitleNum + 1)}
        \cup {<<"q">>, <<"Q">>, <<>>, <<"x">>, <<"1", "x">>, <<"-", "1">>, <<" ", "1">>,
              <<"0", "1">>}

\* get_title_selection, one turn of its loop: a line is read at the title
\* prompt; 'q' ends the script, a title in range goes on to the confirmation
get_title_selection_read ==
    /\ sh.pc = "select"
    /\ \E line \in TitleLines :
          LET input == StripBlanks(line)
              asked == [sh EXCEPT !.input = input, !.asked = @ \cup {"select"}]
              case == SelectionCase(input, sh.max_title)
          IN sh' = IF case = "quit" THEN [asked EXCEPT !.pc = "exit", !.exit = "1"]
                   ELSE IF case = "selected"
                   THEN [asked EXCEPT !.pc = "confirm", !.selected_title = input]
                   ELSE asked

\* the lines the user may type at a y/n prompt
AnswerLines ==
    {<<"y">>, <<"Y">>, <<"y", "e", "s">>, <<"n">>, <<"N", "o">>, <<>>, <<"q">>, <<" ", "y">>}

\* get_title_selection, "Is this correct?", and main's reading of its result
get_title_selection_confirm ==
    /\ sh.pc = "confirm"
    /\ \E line \in AnswerLines :
          LET confirm == StripBlanks(line)
              asked == [sh EXCEPT !.confirm = confirm, !.asked = @ \cup {"confirm"}]
              selection_result == SplitAtBar(sh.selected_title \o <<"|">> \o sh.disc_title)
          IN sh' = IF ~StartsWithY(confirm)
                   THEN [asked EXCEPT !.pc = "exit", !.exit = "1", !.selected_title = <<>>]
                   ELSE [asked EXCEPT !.pc = "name", !.selected_title = selection_result[1],
                                      !.disc_title = selection_result[2]]

\* get_output_name, "Use this name?": yes takes the suggested name, no asks
\* for one, any other answer asks again
get_output_name ==
    /\ sh.pc = "name"
    /\ \E line \in AnswerLines :
          LET use_suggested == StripBlanks(line)
              asked == [sh EXCEPT !.asked = @ \cup {"name"}]
          IN sh' = IF StartsWithY(use_suggested)
                   THEN [asked EXCEPT !.pc = "proceed", !.movie_name = sh.disc_title]
                   ELSE IF use_suggested # <<>> /\ use_suggested[1] \in {"n", "N"}
                   THEN [asked EXCEPT !.pc = "custom"]
                   ELSE asked

\* the lines the user may type at "Enter movie name"
NameLines == {<<>>, <<" ">>, <<"q">>, <<"D", "u", "n", "e", " ", "2">>, <<"!", "?">>}

\* get_output_name, "Enter movie name": an empty name asks again
get_output_name_custom ==
    /\ sh.pc = "custom"
    /\ \E line \in NameLines :
          LET custom_name == StripBlanks(line)
              asked == [sh EXCEPT !.asked = @ \cup {"custom"}]
          IN sh' = IF custom_name # <<>>
                   THEN [asked EXCEPT !.pc = "proceed", !.movie_name = custom_name]
                   ELSE [asked EXCEPT !.pc = "name"]

\* rip_disc up to the start of the rip: "Proceed with rip?", then
\* makemkvcon mkv on the selected title and the output directory
rip_disc ==
    /\ sh.pc = "proceed"
    /\ \E line \in AnswerLines :
          LET proceed == StripBlanks(line)
              asked == [sh EXCEPT !.proceed = proceed, !.asked = @ \cup {"proceed"}]
              output_dir == <<"/">> \o clean_filename(sh.movie_name)
          IN sh' = IF ~StartsWithY(proceed) THEN [asked EXCEPT !.pc = "exit", !.exit = "1"]
                   ELSE [asked EXCEPT !.pc = "makemkvcon",
                                      !.mkv = <<sh.selected_title, output_dir>>]

\* rip_disc once makemkvcon has ended: it succeeded and left a file, or not
rip_disc_end ==
    /\ sh.pc = "makemkvcon"
    /\ \E ok, found \in BOOLEAN :
          sh' = IF ok /\ found THEN ScriptExit("0") ELSE ScriptExit("1")

InitScript ==
    /\ config = DefaultConfig
    /\ IdentIdle /\ DrivesIdle /\ RipIdle /\ ProcIdle /\ UIIdle /\ ScriptIdle

notScriptVars == <<config, identVars, drivesVars, ripVars, procVars, uiVars>>

NextScript ==
    \/ check_requirements /\ UNCHANGED notScriptVars
    \/ wait_for_disc /\ UNCHANGED notScriptVars
    \/ get_disc_info /\ UNCHANGED notScriptVars
    \/ get_title_selection_read /\ UNCHANGED notScriptVars
    \/ get_title_selection_confirm /\ UNCHANGED notScriptVars
    \/ get_output_name /\ UNCHANGED notScriptVars
    \/ get_output_name_custom /\ UNCHANGED notScriptVars
    \/ rip_disc /\ UNCHANGED notScriptVars
    \/ rip_disc_end /\ UNCHANGED notScriptVars

SpecScript == InitScript /\ [][NextScript]_vars

\* the line read at the title prompt is not a title of the disc: it is
\* empty, holds a character that is not a digit, or names a number above
\* max_title
NotATitle(input, max_title) ==
    \/ input = <<>>
    \/ \E i \in 1..Len(input) : ~IsDigit(input[i])
    \/ DecVal(input) > max_title

C21_AsStated == ui.isRipping => uiCmds.listen > 0

\* the options of a launch
OptsOf(args) == {args[k].opt : k \in 1..Len(args)}

\* the arguments disable the system-level configuration file and carry
\* exactly one of the two lookup flags
ArgsAsClaimed(args) ==
    /\ \E k \in 1..Len(args) : args[k].opt = "-c" /\ args[k].val = "/dev/null"
    /\ {"-o", "-d"} \subseteq OptsOf(args)
    /\ Cardinality({"-D", "-L"} \cap OptsOf(args)) = 1

\* C22 as stated: every launch of the ripping tool has arguments that name
\* the format and the device, disable the system-level configuration file
\* and carry exactly one lookup flag.
C22_AsStated ==
    \A i \in 1..Len(uiRips) : Len(uiRips[i].args) > 0 => ArgsAsClaimed(uiRips[i].args)

\* the arguments prepareAbcdeCommand builds are as C22 has them, under every
\* setting of the lookup method, auto-eject and verbose logging
PrepareArgsAsClaimed ==
    \A method \in {"musicbrainz", "cddb", "none"}, eject, verbose \in BOOLEAN :
        LET cfg == [DefaultConfig EXCEPT !.CDDBMethod = method, !.AutoEject = eject,
                                         !.VerboseLogging = verbose]
            opts == OptsOf(prepareAbcdeCommand(cfg))
        IN /\ ArgsAsClaimed(prepareAbcdeCommand(cfg))
           /\ ("-D" \in opts) = (method # "none")
           /\ ("-e" \in opts) = eject
           /\ ("-v" \in opts) = verbose

\* C24 as stated: every event sent on the progress channel has a percentage
\* within 0..100, and no goroutine faults computing one.
C24_AsStated ==
    /\ \A i \in 1..Len(emitted) : emitted[i].Progress \in 0..100
    /\ scan.outPc # "panic"

\* a rip can be started: a drive is configured and a descriptor is present
CanStartRip == config.CDDrive # <<>> /\ ui.cdInfo # "nil"

\* C27: a rip goroutine is started only by a step taken on the CD ripping
\* screen while isRipping is false, a drive is configured and a descriptor
\* is present, and that step sets isRipping; without a drive or a descriptor
\* no step starts a rip or sets isRipping, and Enter or Space sets the
\* 'Cannot start' status.  While isRipping is true the UI is on the CD
\* ripping screen, and a key press changes the UI state only by leaving to
\* the welcome screen (q, Esc).  A detection is started only together with
\* clearing the descriptor.
C27_RipStartGuarded ==
    /\ [][Len(uiRips') > Len(uiRips) =>
            /\ ui.currentScreen = "CDRippingScreen" /\ ~ui.isRipping
            /\ CanStartRip
            /\ ui'.isRipping]_vars
    /\ [][(~ui.isRipping /\ ~CanStartRip) =>
            /\ Len(uiRips') = Len(uiRips) /\ ~ui'.isRipping
            /\ updateCDRippingStart =>
                  ui'.rippingStatus =
                      "Cannot start: No drive configured or CD not detected"]_vars
    /\ [](ui.isRipping => ui.currentScreen = "CDRippingScreen")
    /\ [][(ui.isRipping /\ updateCDRippingBusy /\ ui' # ui) =>
            /\ ui' = [ui EXCEPT !.isRipping = FALSE, !.rippingProgress = 0,
                                !.rippingStatus = "", !.currentScreen = "WelcomeScreen"]
            /\ UNCHANGED <<config, uiCmds, uiRips>>]_vars
    /\ [][uiCmds'.detect > uiCmds.detect =>
            /\ ~ui.isRipping /\ ui.currentScreen = "CDRippingScreen"
            /\ ui'.cdInfo = "nil"]_vars

\* C27's case: Enter without a descriptor has set the 'Cannot start' status
\* and started nothing, although a drive is configured
C27_Witness ==
    /\ ui.currentScreen = "CDRippingScreen"
    /\ config.CDDrive # <<>> /\ ui.cdInfo = "nil"
    /\ ui.rippingStatus = "Cannot start: No drive configured or CD not detected"
    /\ ~ui.isRipping /\ uiRips = <<>>

\* C11 as stated: the tool of a rip the user has cancelled does not keep
\* running once the UI is back on the welcome screen.
C11_AsStated ==
    ui.currentScreen = "WelcomeScreen" => \A i \in 1..Len(uiRips) : uiRips[i].st # "running"

\* The UI with its scheduling: the runtime delivers every message in flight
\* and the goroutines run; nobody has to press a key.
SpecUIFair ==
    /\ SpecUI
    /\ WF_vars(spinnerTick /\ UNCHANGED notUIVars)
    /\ WF_vars(cdDetected /\ UNCHANGED notUIVars)
    /\ WF_vars(ripGoStart /\ UNCHANGED notUIVars)
    /\ WF_vars(ripGoExit /\ UNCHANGED notUIVars)

\* the rip started last has ended and the UI still shows it as running
RipEndedUnnoticed ==
    /\ ui.isRipping
    /\ uiRips # <<>> /\ uiRips[Len(uiRips)].st = "returned"

\* C12 as stated: once the rip started from the UI has ended, the UI
\* eventually leaves the ripping state.
C12_AsStated == RipEndedUnnoticed ~> ~ui.isRipping

-----------------------------------------------------------------------------
(* The settings screens of main.go: the four field editors with their     *)
(* edit mode, next to the welcome screen, the settings menu and the       *)
(* drives screen above.  The handlers of the CD ripping screen touch      *)
(* neither the selection, the edit mode nor the configuration.            *)

MaxEditLen == 3
MaxChanged == 1

\* the keys pressed during an edit, and the keys whose String() is one
\* character long
EditKeys == {"enter", "esc", "backspace", "9", "x", "up"}
OneCharKeys == {"q", " ", "r", "s", "k", "j", "x", "9"}

\* the fields behind the rows of the four editors, in the order of
\* pathsFields, cdFields, toolsFields and uiFields
pathsFields == <<"Music", "Movies", "Config", "LogFile">>
cdFields ==
    <<"RetryCount", "RetryDelay", "InitialWait", "AutoEject", "OutputFormat", "CDDBMethod">>
toolsFields == <<"AbcdePath", "CDDiscidPath", "MakeMKVPath">>
uiFields == <<"Theme", "RefreshRate">>

validFormats == <<"flac", "mp3", "ogg", "wav">>
validMethods == <<"musicbrainz", "cddb", "none">>

\* the characters of the format and method names
CharsOf ==
    [flac |-> <<"f", "l", "a", "c">>, mp3 |-> <<"m", "p", "3">>, ogg |-> <<"o", "g", "g">>,
     wav |-> <<"w", "a", "v">>,
     musicbrainz |-> <<"m", "u", "s", "i", "c", "b", "r", "a", "i", "n", "z">>,
     cddb |-> <<"c", "d", "d", "b">>, none |-> <<"n", "o", "n", "e">>]

RECURSIVE parseIntFrom(_, _)
parseIntFrom(s, val) ==
    IF s = <<>> THEN val
    ELSE IF IsDigit(Head(s)) THEN parseIntFrom(Tail(s), val * 10 + DigitVal(Head(s)))
    ELSE 0 - 1

\* parseInt: the digits read from the left, -1 at the first other character
parseInt(s) == parseIntFrom(s, 0)

\* the bounds the editors accept for the numeric fields
NumericRange ==
    [RetryCount |-> 0..10, RetryDelay |-> 0..60, InitialWait |-> 0..120,
     RefreshRate |-> 50..1000]

\* the default branch of an edit: backspace drops the last character, a key
\* of one character is appended
typeKey(v, key) ==
    IF key = "backspace" THEN (IF Len(v) > 0 THEN SubSeq(v, 1, Len(v) - 1) ELSE v)
    ELSE IF key \in OneCharKeys THEN Append(v, key)
    ELSE v

\* navigation outside an edit, on a screen of n rows
navigateFields(key, n) ==
    CASE key \in {"q", "esc"} -> [ui EXCEPT !.currentScreen = "SettingsMenuScreen"]
      [] key \in {"up", "k"} -> [ui EXCEPT !.selectedItem = IF @ > 0 THEN @ - 1 ELSE @]
      [] key \in {"down", "j"} -> [ui EXCEPT !.selectedItem = IF @ < n - 1 THEN @ + 1 ELSE @]
      [] OTHER -> ui

\* the next entry of a cycled list: the first one when cur is not in it
cycleNext(list, cur) ==
    LET currentIndex == IF \E i \in 1..Len(list) : list[i] = cur
                        THEN (CHOOSE i \in 1..Len(list) : list[i] = cur) - 1
                        ELSE 0 - 1
    IN list[((currentIndex + 1) % Len(list)) + 1]

\* an editor of text fields: updatePathsSettings and updateToolsSettings
updateTextSettings(key, screen, fields) ==
    LET row == ui.selectedItem + 1
        onRow == row \in 1..Len(fields)
    IN /\ ~ui.quit /\ ui.currentScreen = screen
       /\ IF ui.isEditing
          THEN CASE key = "enter" ->
                      /\ config' = IF onRow THEN [config EXCEPT ![fields[row]] = ui.editValue]
                                   ELSE config
                      /\ ui' = [ui EXCEPT !.isEditing = FALSE, !.editValue = <<>>,
                                          !.saved = <<config'>>]
                 [] key = "esc" ->
                      /\ ui' = [ui EXCEPT !.isEditing = FALSE, !.editValue = <<>>]
                      /\ UNCHANGED config
                 [] OTHER ->
                      /\ ui' = [ui EXCEPT !.editValue = typeKey(@, key)]
                      /\ UNCHANGED config
          ELSE /\ ui' = IF key = "enter"
                        THEN [ui EXCEPT !.isEditing = TRUE,
                                        !.editValue = IF onRow THEN config[fields[row]] ELSE @]
                        ELSE navigateFields(key, Len(fields))
               /\ UNCHANGED config
       /\ UNCHANGED <<uiCmds, uiRips>>

\* (an updatePathsSettings whose esc leaves the edit but keeps the buffer)
updatePathsSettingsKeepBuffer(key) ==
    IF ui.isEditing /\ key = "esc"
    THEN /\ ~ui.quit /\ ui.currentScreen = "PathsSettingsScreen"
         /\ ui' = [ui EXCEPT !.isEditing = FALSE]
         /\ UNCHANGED <<config, uiCmds, uiRips>>
    ELSE updateTextSettings(key, "PathsSettingsScreen", pathsFields)

updatePathsSettings(key) == updateTextSettings(key, "PathsSettingsScreen", pathsFields)

updateToolsSettings(key) == updateTextSettings(key, "ToolsSettingsScreen", toolsFields)

\* updateUISettings
updateUISettings(key) ==
    /\ ~ui.quit /\ ui.currentScreen = "UISettingsScreen"
    /\ IF ui.isEditing
       THEN CASE key = "enter" ->
                   /\ config' =
                        CASE ui.selectedItem = 0 ->
                               IF ui.editValue # <<>>
                               THEN [config EXCEPT !.Theme = ui.editValue] ELSE config
                          [] ui.selectedItem = 1 ->
                               LET val == parseInt(ui.editValue)
                               IN IF val >= 50 /\ val <= 1000
                                  THEN [config EXCEPT !.RefreshRate = val] ELSE config
                          [] OTHER -> config
                   /\ ui' = [ui EXCEPT !.isEditing = FALSE, !.editValue = <<>>,
                                       !.saved = <<config'>>]
              [] key = "esc" ->
                   /\ ui' = [ui EXCEPT !.isEditing = FALSE, !.editValue = <<>>]
                   /\ UNCHANGED config
              [] OTHER ->
                   /\ ui' = [ui EXCEPT !.editValue = typeKey(@, key)]
                   /\ UNCHANGED config
       ELSE /\ ui' = IF key = "enter"
                     THEN [ui EXCEPT !.isEditing = TRUE,
                                     !.editValue =
                                        CASE ui.selectedItem = 0 -> config.Theme
                                          [] ui.selectedItem = 1 -> Itoa(config.RefreshRate)
                                          [] OTHER -> @]
                     ELSE navigateFields(key, Len(uiFields))
            /\ UNCHANGED config
    /\ UNCHANGED <<uiCmds, uiRips>>

\* updateCDRippingSettings
updateCDRippingSettings(key) ==
    /\ ~ui.quit /\ ui.currentScreen = "CDRippingSettingsScreen"
    /\ IF ui.isEditing
       THEN CASE key = "enter" ->
                   /\ config' =
                        CASE ui.selectedItem \in {0, 1, 2} ->
                               LET val == parseInt(ui.editValue)
                                   f == cdFields[ui.selectedItem + 1]
                               IN IF val >= 0 /\ val \in NumericRange[f]
                                  THEN [config EXCEPT ![f] = val] ELSE config
                          [] ui.selectedItem = 4 ->
                               IF \E i \in 1..Len(validFormats) :
                                      ui.editValue = CharsOf[validFormats[i]]
                               THEN [config EXCEPT !.OutputFormat =
                                        validFormats[CHOOSE i \in 1..Len(validFormats) :
                                                        ui.editValue = CharsOf[validFormats[i]]]]
                               ELSE config
                          [] ui.selectedItem = 5 ->
                               IF \E i \in 1..Len(validMethods) :
                                      ui.editValue = CharsOf[validMethods[i]]
                               THEN [config EXCEPT !.CDDBMethod =
                                        validMethods[CHOOSE i \in 1..Len(validMethods) :
                                                        ui.editValue = CharsOf[validMethods[i]]]]
                               ELSE config
                          [] OTHER -> config
                   /\ ui' = [ui EXCEPT !.isEditing = FALSE, !.editValue = <<>>,
                                       !.saved = <<config'>>]
              [] key = "esc" ->
                   /\ ui' = [ui EXCEPT !.isEditing = FALSE, !.editValue = <<>>]
                   /\ UNCHANGED config
              [] OTHER ->
                   /\ ui' = IF ui.selectedItem # 3
                            THEN [ui EXCEPT !.editValue = typeKey(@, key)] ELSE ui
                   /\ UNCHANGED config
       ELSE CASE key \in {"enter", " "} ->
                   CASE ui.selectedItem = 3 ->
                          /\ config' = [config EXCEPT !.AutoEject = ~@]
                          /\ ui' = [ui EXCEPT !.saved = <<config'>>]
                     [] ui.selectedItem = 4 ->
                          /\ config' = [config EXCEPT !.OutputFormat = cycleNext(validFormats, @)]
                          /\ ui' = [ui EXCEPT !.saved = <<config'>>]
                     [] ui.selectedItem = 5 ->
                          /\ config' = [config EXCEPT !.CDDBMethod = cycleNext(validMethods, @)]
                          /\ ui' = [ui EXCEPT !.saved = <<config'>>]
                     [] OTHER ->
                          /\ ui' = [ui EXCEPT !.isEditing = TRUE,
                                              !.editValue =
                                                 IF ui.selectedItem \in {0, 1, 2}
                                                 THEN Itoa(config[cdFields[ui.selectedItem + 1]])
                                                 ELSE @]
                          /\ UNCHANGED config
              [] OTHER ->
                   /\ ui' = navigateFields(key, Len(cdFields))
                   /\ UNCHANGED config
    /\ UNCHANGED <<uiCmds, uiRips>>

\* the number of settings that differ from the defaults
Changed(c) == Cardinality({f \in DOMAIN c : c[f] # DefaultConfig[f]})

\* the keys of a key event on one of the four editors
KeysNow == IF ui.isEditing THEN EditKeys ELSE Keys

\* the buffer holds at most MaxEditLen typed characters more
RoomToType(key) ==
    (ui.isEditing /\ key \in OneCharKeys) => Len(ui.editValue) < MaxEditLen

\* key events on the four editors; at most MaxChanged settings are changed
PathsSettingsKey ==
    \E key \in KeysNow :
        RoomToType(key) /\ updatePathsSettings(key) /\ Changed(config') <= MaxChanged

CDRippingSettingsKey ==
    \E key \in KeysNow :
        RoomToType(key) /\ updateCDRippingSettings(key) /\ Changed(config') <= MaxChanged

ToolsSettingsKey ==
    \E key \in KeysNow :
        RoomToType(key) /\ updateToolsSettings(key) /\ Changed(config') <= MaxChanged

UISettingsKey ==
    \E key \in KeysNow :
        RoomToType(key) /\ updateUISettings(key) /\ Changed(config') <= MaxChanged

DrivesSettingsKey == updateDrivesSettings /\ Changed(config') <= MaxChanged

InitSettings ==
    /\ config = DefaultConfig
    /\ IdentIdle /\ DrivesIdle /\ RipIdle /\ ProcIdle /\ ScriptIdle
    /\ \E h \in UIHosts : ui = InitialModel(DetectDrives(h).drives)
    /\ uiCmds = [detect |-> 0, tick |-> 0, listen |-> 0]
    /\ uiRips = <<>>

NextSettings ==
    \/ updateWelcome /\ UNCHANGED notUIVars
    \/ updateSettingsMenu /\ UNCHANGED notUIVars
    \/ DrivesSettingsKey /\ UNCHANGED notUIVars
    \/ PathsSettingsKey /\ UNCHANGED notUIVars
    \/ CDRippingSettingsKey /\ UNCHANGED notUIVars
    \/ ToolsSettingsKey /\ UNCHANGED notUIVars
    \/ UISettingsKey /\ UNCHANGED notUIVars

SpecSettings == InitSettings /\ [][NextSettings]_vars

\* the number of rows of a settings screen
ItemCount(screen) ==
    CASE screen = "SettingsMenuScreen" -> Len(settingsScreens)
      [] screen = "PathsSettingsScreen" -> Len(pathsFields)
      [] screen = "CDRippingSettingsScreen" -> Len(cdFields)
      [] screen = "ToolsSettingsScreen" -> Len(toolsFields)
      [] screen = "UISettingsScreen" -> Len(uiFields)
      [] screen = "DrivesSettingsScreen" -> Len(ui.availableDrives)

\* C28 as stated: on the settings menu and on each of the five settings
\* screens, selectedItem is an index into the rows of that screen (5
\* categories, 4 path fields, 6 CD ripping fields, 3 tool fields, 2 UI
\* fields, the detected drives), 0 being allowed for an empty drives list.
C28_AsStated ==
    ui.currentScreen \in ({"SettingsMenuScreen"} \cup {settingsScreens[i] : i \in 1..5})
        => \/ ui.selectedItem \in 0..(ItemCount(ui.currentScreen) - 1)
           \/ /\ ui.currentScreen = "DrivesSettingsScreen"
              /\ ui.availableDrives = <<>> /\ ui.selectedItem = 0

\* the numeric and enumerated settings are within the ranges Validate accepts
SettingsInRange ==
    /\ \A f \in DOMAIN NumericRange : config[f] \in NumericRange[f]
    /\ \E k \in 1..Len(validFormats) : config.OutputFormat = validFormats[k]
    /\ \E k \in 1..Len(validMethods) : config.CDDBMethod = validMethods[k]

\* the numeric field under edit, "none" when the row is not numeric
NumericFieldEdited ==
    IF ui.currentScreen = "CDRippingSettingsScreen" /\ ui.selectedItem \in {0, 1, 2}
    THEN cdFields[ui.selectedItem + 1]
    ELSE IF ui.currentScreen = "UISettingsScreen" /\ ui.selectedItem = 1
    THEN "RefreshRate"
    ELSE "none"

\* the buffer is a number (one decimal digit or more) within the field's range
EntryInRange(f, s) ==
    /\ s # <<>> /\ \A k \in 1..Len(s) : IsDigit(s[k])
    /\ DecVal(s) \in NumericRange[f]

\* C29 as stated: from the validated default configuration, the numeric and
\* enumerated settings stay within their validated ranges under every key
\* event of the settings screens, and a key event on a numeric field under
\* edit whose buffer is not a number within the field's range leaves the
\* stored value as it was.
C29_AsStated ==
    /\ [] SettingsInRange
    /\ [][(ui.isEditing /\ NumericFieldEdited # "none"
              /\ ~EntryInRange(NumericFieldEdited, ui.editValue))
            => config'[NumericFieldEdited] = config[NumericFieldEdited]]_vars

\* Esc pressed during an edit, on whichever of the four editors is shown
EscWhileEditing ==
    /\ ui.isEditing
    /\ \/ updatePathsSettings("esc")
       \/ updateCDRippingSettings("esc")
       \/ updateToolsSettings("esc")
       \/ updateUISettings("esc")

\* C30: Esc during an edit only ends the edit: isEditing becomes false and
\* the buffer empty, the configuration, the saved file, the screen and the
\* selected row stay as they were; and whenever no edit is going on the
\* buffer is empty.
C30_EscDiscardsEdit ==
    /\ [][EscWhileEditing =>
            /\ config' = config
            /\ ui' = [ui EXCEPT !.isEditing = FALSE, !.editValue = <<>>]]_vars
    /\ [](~ui.isEditing => ui.editValue = <<>>)

\* an edit of the log file path with a changed buffer, nothing stored yet
C30_Witness ==
    /\ ui.currentScreen = "PathsSettingsScreen" /\ ui.selectedItem = 3
    /\ ui.isEditing /\ ui.editValue = SubSeq(S_LogFile, 1, 2) \o <<"x">>
    /\ config = DefaultConfig /\ ui.saved = <<>>

=============================================================================
